---- MODULE Spec2Model ----
(***************************************************************************)
(* Invoice processing platform: workflow state machine, message bus and    *)
(* the upload -> process -> approval pipeline, modelled from the sources   *)
(* under src/backend.                                                      *)
(*                                                                         *)
(* Three specifications share the module:                                  *)
(*   SpecSM   workflow-service/workflow_engine/state_machine.py            *)
(*   SpecBus  shared/message_queue.py (Redis-backed and in-memory queue)   *)
(*   Spec     upload route, InvoiceProcessor, event handlers, approval     *)
(*            service and the invoice/approval routes                      *)
(* Each specification leaves the variables of the others unchanged.        *)
(***************************************************************************)
EXTENDS Integers, Sequences, FiniteSets, TLC

VARIABLES
    workflows,   \* StateMachine._workflows: invoice id -> WorkflowState
    hooks,       \* StateMachine._hooks: state -> list of registered hooks
    smCall,      \* the last StateMachine call: operation, outcome, hooks it ran
    queueKind,   \* which queue init_message_queue built: "redis" or "memory"
    handlers,    \* queue.handlers: event type -> list of subscribed handlers
    running,     \* queue._running
    consumers,   \* event types that have a _consume_channel task (Redis)
    channel,     \* Redis pub/sub: event type -> messages not yet consumed
    messages,    \* the message log: InMemoryMessageQueue.messages / the stream
    dlq,         \* Redis list dlq:failed_messages
    invoked,     \* handler invocations so far: handler, message id, outcome
    nextMsgId,   \* source of Message.id
    closed,      \* disconnect has returned and the queue was not started since
    status,      \* the invoices table: invoice id -> stored status, or "none"
    run,         \* the process_invoice executions: where each one is
    tasks,       \* the approval tasks request_approval has created
    approval_tasks, \* routes/approvals.py _approval_tasks: task id -> task
    apiCalls,    \* update_invoice / delete_invoice requests served
    redelivered, \* messages a second consumer has handled again
    slaConfig,   \* SLAManager.config
    slaNow,      \* datetime.utcnow(), in hours
    slaRecords,  \* SLAManager._records: invoice id -> SLARecord
    slaCall,     \* the SLAManager call made at this hour, what it returned
    engineModule, \* outcome of executing approval_rules/engine.py
    rules,       \* ApprovalRulesEngine._rules, in insertion order
    rulesCall,   \* the last call on the rules engine, what it returned
    hash_index,  \* DuplicateDetector._hash_index: key -> list of records
    vendor_index, \* DuplicateDetector._vendor_index: key -> list of records
    dupCall,     \* the last DuplicateDetector call, what it returned
    registered,  \* the register_document calls so far, in order
    riskInput,   \* the arguments of RiskScorer.assess
    riskResult,  \* the RiskAssessment it returned, once it has
    events,      \* AuditLogger._events
    event_counter, \* AuditLogger._event_counter
    auditCall, \* the last AuditLogger call, what it was given or returned
    poInput,     \* the arguments of POMatchingEngine.match_invoice
    poResult     \* the MatchResult it returned, once it has

smVars == <<workflows, hooks, smCall>>

busVars == <<queueKind, handlers, running, consumers, channel, messages, dlq,
             invoked, nextMsgId, closed>>

pipeVars == <<status, run, tasks, approval_tasks, apiCalls, redelivered>>

slaVars == <<slaConfig, slaNow, slaRecords, slaCall>>

\* The state of the stand-alone components.
rulesVars == <<engineModule, rules, rulesCall>>

dupVars == <<hash_index, vendor_index, dupCall, registered>>

riskVars == <<riskInput, riskResult>>

auditVars == <<events, event_counter, auditCall>>

poVars == <<poInput, poResult>>

libVars == <<slaVars, rulesVars, dupVars, riskVars, auditVars, poVars>>

vars == <<smVars, busVars, pipeVars, libVars>>

\* What a StateMachine operation leaves alone, and what a bus operation does.
outsideSM == <<busVars, pipeVars, libVars>>
outsideBus == <<smVars, pipeVars, libVars>>

(***************************************************************************)
(* Workflow state machine                                                  *)
(***************************************************************************)

\* Bounds of the state-machine model.
MaxHistory == 2
MaxHooks == 1

SmInvoices == {"inv-1", "inv-2"}

\* Bounds of the model of one invoice followed through its whole life.
MaxFlowHistory == 14
MaxFlowHooks == 2

\* The invoice followed through its whole life, the state its hooks are
\* registered on.
FlowInvoices == {"inv-flow"}
FlowHookStates == {"validated"}

\* How long a history, and a hook list, the model lets grow.
HistoryBound(invoice_id) ==
    IF invoice_id \in FlowInvoices THEN MaxFlowHistory ELSE MaxHistory

HookBound(state) ==
    IF state \in FlowHookStates THEN MaxFlowHooks ELSE MaxHooks

InvoiceState ==
    {"uploaded", "processing", "ocr_complete", "extracted", "validated",
     "review_pending", "approved", "rejected", "payment_pending", "paid",
     "archived", "error"}

TransitionAction ==
    {"upload", "start_processing", "complete_ocr", "complete_extraction",
     "validate", "request_review", "approve", "reject", "request_payment",
     "confirm_payment", "archive", "report_error", "retry"}

\* StateMachine.TRANSITIONS as rows <<state, action, target>>.
TRANSITIONS ==
    {<<"uploaded", "start_processing", "processing">>,
     <<"uploaded", "report_error", "error">>,
     <<"processing", "complete_ocr", "ocr_complete">>,
     <<"processing", "report_error", "error">>,
     <<"ocr_complete", "complete_extraction", "extracted">>,
     <<"ocr_complete", "report_error", "error">>,
     <<"extracted", "validate", "validated">>,
     <<"extracted", "report_error", "error">>,
     <<"validated", "request_review", "review_pending">>,
     <<"validated", "approve", "approved">>,
     <<"review_pending", "approve", "approved">>,
     <<"review_pending", "reject", "rejected">>,
     <<"approved", "request_payment", "payment_pending">>,
     <<"payment_pending", "confirm_payment", "paid">>,
     <<"payment_pending", "report_error", "error">>,
     <<"paid", "archive", "archived">>,
     <<"rejected", "archive", "archived">>,
     <<"rejected", "retry", "uploaded">>,
     <<"error", "retry", "uploaded">>,
     <<"error", "archive", "archived">>}

\* valid_actions = self.TRANSITIONS.get(workflow.current_state, {})
valid_actions(state) == {r[2] : r \in {t \in TRANSITIONS : t[1] = state}}

\* Mutant of to_state_of: a retry resumes at VALIDATED.
to_state_of_resumes(state, action) ==
    IF action = "retry" THEN "validated"
    ELSE (CHOOSE t \in TRANSITIONS : t[1] = state /\ t[2] = action)[3]

\* valid_actions[action]
to_state_of(state, action) ==
    (CHOOSE t \in TRANSITIONS : t[1] = state /\ t[2] = action)[3]

\* States create_workflow is called with (initial_state is a parameter, default
\* UPLOADED).
InitialStates == InvoiceState

\* Hooks: h_ok returns, h_raise raises.  Hooks are registered on HookStates.
Hooks == {"h_ok", "h_raise"}
HookStates == {"processing"}

NoCall == [op |-> "none", result |-> "none", ran |-> <<>>]

\* WorkflowState(invoice_id, current_state) with the dataclass defaults;
\* updated_at counts the writes of the field since creation.
NewWorkflow(initial_state) ==
    [current_state |-> initial_state, history |-> <<>>, updated_at |-> 0]

\* Mutant: the history entry is appended but current_state is not moved.
record_transition_keeps_state(workflow, action) ==
    LET from_state == workflow.current_state
        to_state == to_state_of(from_state, action)
    IN [workflow EXCEPT
          !.history = Append(@, [from_state |-> from_state,
                                 to_state |-> to_state,
                                 action |-> action]),
          !.updated_at = @ + 1]

\* Mutant: the entry records the target state as its from_state.
record_transition_wrong_from(workflow, action) ==
    LET to_state == to_state_of(workflow.current_state, action)
    IN [workflow EXCEPT
          !.history = Append(@, [from_state |-> to_state,
                                 to_state |-> to_state,
                                 action |-> action]),
          !.current_state = to_state,
          !.updated_at = @ + 1]

\* The body of StateMachine.transition after the validity check: append the
\* StateTransition, move current_state, touch updated_at.
record_transition(workflow, action) ==
    LET from_state == workflow.current_state
        to_state == to_state_of(from_state, action)
    IN [workflow EXCEPT
          !.history = Append(@, [from_state |-> from_state,
                                 to_state |-> to_state,
                                 action |-> action]),
          !.current_state = to_state,
          !.updated_at = @ + 1]

\* The two checks of StateMachine.transition that raise ValueError.
transition_rejected(wfs, invoice_id, action) ==
    \/ invoice_id \notin DOMAIN wfs
    \/ action \notin valid_actions(wfs[invoice_id].current_state)

\* Mutant of execute_hooks: the loop ends at the first hook that raises.
RECURSIVE execute_hooks_until_raise(_, _)
execute_hooks_until_raise(hk, state) ==
    LET registered_hooks == IF state \in DOMAIN hk THEN hk[state] ELSE <<>>
        firstRaise == {k \in DOMAIN registered_hooks :
                          /\ registered_hooks[k] = "h_raise"
                          /\ \A j \in 1..(k - 1) :
                                 registered_hooks[j] # "h_raise"}
    IN IF firstRaise = {} THEN registered_hooks
       ELSE SubSeq(registered_hooks, 1, CHOOSE k \in firstRaise : TRUE)

\* _execute_hooks: every hook registered for the state, in order; a raising
\* hook is logged and the loop goes on.
execute_hooks(hk, state) == IF state \in DOMAIN hk THEN hk[state] ELSE <<>>

SMInit ==
    /\ workflows = [i \in {} |-> NewWorkflow("uploaded")]
    /\ hooks = [s \in {} |-> <<>>]
    /\ smCall = NoCall

create_workflow(invoice_id, initial_state) ==
    /\ workflows' = [i \in DOMAIN workflows \cup {invoice_id} |->
                        IF i = invoice_id THEN NewWorkflow(initial_state)
                        ELSE workflows[i]]
    /\ smCall' = [op |-> "create_workflow", result |-> "ok", ran |-> <<>>]
    /\ UNCHANGED <<hooks, outsideSM>>

\* Mutant: updated_at is touched before the action is validated.
transition_touches_first(invoice_id, action) ==
    IF transition_rejected(workflows, invoice_id, action)
    THEN /\ smCall' = [op |-> "transition", result |-> "ValueError",
                       ran |-> <<>>]
         /\ workflows' = [i \in DOMAIN workflows |->
                            IF i = invoice_id
                            THEN [workflows[i] EXCEPT !.updated_at = @ + 1]
                            ELSE workflows[i]]
         /\ invoice_id \in DOMAIN workflows
              => workflows[invoice_id].updated_at < HistoryBound(invoice_id)
         /\ UNCHANGED <<hooks, outsideSM>>
    ELSE LET new == record_transition(workflows[invoice_id], action)
         IN /\ Len(workflows[invoice_id].history) < HistoryBound(invoice_id)
            /\ workflows' = [workflows EXCEPT ![invoice_id] = new]
            /\ smCall' = [op |-> "transition", result |-> "ok",
                          ran |-> execute_hooks(hooks, new.current_state)]
            /\ UNCHANGED <<hooks, outsideSM>>

transition(invoice_id, action) ==
    IF transition_rejected(workflows, invoice_id, action)
    THEN /\ smCall' = [op |-> "transition", result |-> "ValueError",
                       ran |-> <<>>]
         /\ UNCHANGED <<workflows, hooks, outsideSM>>
    ELSE LET new == record_transition(workflows[invoice_id], action)
         IN /\ Len(workflows[invoice_id].history) < HistoryBound(invoice_id)
            /\ workflows' = [workflows EXCEPT ![invoice_id] = new]
            /\ smCall' = [op |-> "transition", result |-> "ok",
                          ran |-> execute_hooks(hooks, new.current_state)]
            /\ UNCHANGED <<hooks, outsideSM>>

register_hook(state, hook) ==
    /\ Len(execute_hooks(hooks, state)) < HookBound(state)
    /\ hooks' = [s \in DOMAIN hooks \cup {state} |->
                    IF s = state THEN Append(execute_hooks(hooks, state), hook)
                    ELSE hooks[s]]
    /\ smCall' = [op |-> "register_hook", result |-> "ok", ran |-> <<>>]
    /\ UNCHANGED <<workflows, outsideSM>>

SMNext ==
    \/ \E i \in SmInvoices, s \in InitialStates : create_workflow(i, s)
    \/ \E i \in SmInvoices, a \in TransitionAction : transition(i, a)
    \/ \E s \in HookStates, h \in Hooks : register_hook(s, h)

\* One invoice created in UPLOADED and taken through transitions, with hooks
\* registered on one of its states.
FlowNext ==
    \/ \E i \in FlowInvoices : create_workflow(i, "uploaded")
    \/ \E i \in FlowInvoices, a \in TransitionAction : transition(i, a)
    \/ \E s \in FlowHookStates, h \in Hooks : register_hook(s, h)

(***************************************************************************)
(* Message bus: RedisMessageQueue and InMemoryMessageQueue                 *)
(***************************************************************************)

\* Bounds of the bus model.
MaxPublish == 2
MaxSubscriptions == 2

\* Message.max_retries as set by Message.__init__.
DefaultMaxRetries == 3

\* Event types and handlers the bus model is exercised with.
\* The event types of EventType that the pipeline publishes.
EventTypes == {"invoice.uploaded", "invoice.processed", "invoice.approved",
               "invoice.rejected", "approval.requested", "approval.assigned",
               "approval.completed", "system.error"}

\* Event types and handlers the bus model is exercised with.
BusEvents == {"invoice.uploaded", "invoice.processed"}
BusHandlers == {"handler_a", "handler_b"}

NoHandlers == [e \in EventTypes |-> <<>>]
EmptyChannels == [e \in EventTypes |-> <<>>]
NoData == [invoice_id |-> "none"]

\* Message(event_type, data, correlation_id): a fresh id, retry_count 0,
\* max_retries 3; the correlation id defaults to the message's own id.
Message(id, event_type, data, correlation_id) ==
    [id |-> id, event_type |-> event_type, data |-> data,
     correlation_id |-> IF correlation_id = "None" THEN <<"message", id>>
                        ELSE correlation_id,
     retry_count |-> 0, max_retries |-> DefaultMaxRetries]

\* The variables of the bus when no queue operation has run.
BusIdle ==
    /\ queueKind = "memory"
    /\ handlers = NoHandlers
    /\ running = FALSE
    /\ consumers = {}
    /\ channel = EmptyChannels
    /\ messages = <<>>
    /\ dlq = <<>>
    /\ invoked = <<>>
    /\ nextMsgId = 1
    /\ closed = FALSE

\* init_message_queue: a connected RedisMessageQueue, or the in-memory
\* fallback; nothing subscribed, consumers not started.
BusInit ==
    /\ queueKind \in {"redis", "memory"}
    /\ handlers = NoHandlers
    /\ running = FALSE
    /\ consumers = {}
    /\ channel = EmptyChannels
    /\ messages = <<>>
    /\ dlq = <<>>
    /\ invoked = <<>>
    /\ nextMsgId = 1
    /\ closed = FALSE

\* The number of subscriptions made so far.
RECURSIVE SubscriptionCount(_, _)
SubscriptionCount(hs, es) ==
    IF es = {} THEN 0
    ELSE LET e == CHOOSE x \in es : TRUE
         IN Len(hs[e]) + SubscriptionCount(hs, es \ {e})

\* subscribe(event_type, handler): append to the list of the event type.
subscribe(event_type, handler) ==
    /\ SubscriptionCount(handlers, BusEvents) < MaxSubscriptions
    /\ handlers' = [handlers EXCEPT ![event_type] = Append(@, handler)]
    /\ UNCHANGED <<outsideBus, closed, queueKind, running, consumers, channel,
                   messages, dlq,
                   invoked, nextMsgId>>

\* start_consumers: _running = True; the Redis queue starts one
\* _consume_channel task per event type that has a handler list.
start_consumers ==
    /\ ~running
    /\ running' = TRUE
    /\ closed' = FALSE
    /\ consumers' = IF queueKind = "redis"
                    THEN consumers \cup {e \in BusEvents : handlers[e] # <<>>}
                    ELSE consumers
    /\ UNCHANGED <<outsideBus, queueKind, handlers, channel, messages, dlq,
                   invoked,
                   nextMsgId>>

\* Mutant of handler_loop: the loop ends at the first handler that raises.
RECURSIVE handler_loop_stops(_, _, _, _)
handler_loop_stops(hs, k, msg, raises) ==
    IF k > Len(hs) THEN <<>>
    ELSE IF k \in raises
    THEN <<[handler |-> hs[k], msg |-> msg.id, outcome |-> "raised"]>>
    ELSE <<[handler |-> hs[k], msg |-> msg.id, outcome |-> "returned"]>>
         \o handler_loop_stops(hs, k + 1, msg, raises)

\* The handler loop of _handle_message (both queues): every handler of the
\* list is invoked in order; `raises` are the positions whose handler raises.
\* The result is the invocation records, in order.
RECURSIVE handler_loop(_, _, _, _)
handler_loop(hs, k, msg, raises) ==
    IF k > Len(hs) THEN <<>>
    ELSE <<[handler |-> hs[k], msg |-> msg.id,
            outcome |-> IF k \in raises THEN "raised" ELSE "returned"]>>
         \o handler_loop(hs, k + 1, msg, raises)

\* RedisMessageQueue._handle_message's except branch, once per raising
\* handler: _send_to_dlq(message, error) pushes the message as it is.
send_to_dlq(msg, calls) ==
    LET failed == SelectSeq(calls, LAMBDA c : c.outcome = "raised")
    IN [k \in 1..Len(failed) |-> [message |-> msg,
                                  handler |-> failed[k].handler]]

\* InMemoryMessageQueue.publish: log the message, then _handle_message runs
\* the handlers before publish returns; a raising handler is only logged.
publish_memory(event_type, raises) ==
    LET msg == Message(nextMsgId, event_type, NoData, "None")
    IN /\ queueKind = "memory"
       /\ nextMsgId <= MaxPublish
       /\ messages' = Append(messages, msg)
       /\ invoked' = invoked
                       \o handler_loop(handlers[event_type], 1, msg, raises)
       /\ nextMsgId' = nextMsgId + 1
       /\ UNCHANGED <<outsideBus, closed, queueKind, handlers, running, consumers,
                      channel, dlq>>

\* InMemoryMessageQueue.publish of a message whose handler at position p
\* awaits publish of a second message of the same type: the inner publish
\* logs the second message and runs the whole handler list on it before the
\* outer loop goes on to the handlers after p.
publish_memory_reentrant(event_type, p) ==
    LET first == Message(nextMsgId, event_type, NoData, "None")
        second == Message(nextMsgId + 1, event_type, NoData, "None")
        hs == handlers[event_type]
    IN /\ queueKind = "memory"
       /\ nextMsgId + 1 <= MaxPublish
       /\ p \in DOMAIN hs
       /\ messages' = messages \o <<first, second>>
       /\ invoked' = invoked
                       \o handler_loop(SubSeq(hs, 1, p), 1, first, {})
                       \o handler_loop(hs, 1, second, {})
                       \o handler_loop(hs, p + 1, first, {})
       /\ nextMsgId' = nextMsgId + 2
       /\ UNCHANGED <<outsideBus, closed, queueKind, handlers, running,
                      consumers, channel, dlq>>

\* RedisMessageQueue.publish: PUBLISH on the channel (received by the
\* consumer task of the event type, if one is subscribed), XADD to the stream.
publish_redis(event_type) ==
    LET msg == Message(nextMsgId, event_type, NoData, "None")
    IN /\ queueKind = "redis"
       /\ nextMsgId <= MaxPublish
       /\ messages' = Append(messages, msg)
       /\ channel' = IF event_type \in consumers
                     THEN [channel EXCEPT ![event_type] = Append(@, msg)]
                     ELSE channel
       /\ nextMsgId' = nextMsgId + 1
       /\ UNCHANGED <<outsideBus, closed, queueKind, handlers, running, consumers,
                      dlq, invoked>>

\* _consume_channel receives the next message of its channel and
\* _handle_message runs the handler loop; each raising handler sends the
\* message to the dead-letter list.
consume_redis(event_type, raises) ==
    /\ queueKind = "redis"
    /\ running
    /\ event_type \in consumers
    /\ channel[event_type] # <<>>
    /\ LET msg == Head(channel[event_type])
           calls == handler_loop(handlers[event_type], 1, msg, raises)
       IN /\ invoked' = invoked \o calls
          /\ dlq' = dlq \o send_to_dlq(msg, calls)
    /\ channel' = [channel EXCEPT ![event_type] = Tail(@)]
    /\ UNCHANGED <<outsideBus, closed, queueKind, handlers, running, consumers,
                   messages,
                   nextMsgId>>

\* disconnect: _running = False; the Redis queue cancels its consumer tasks.
disconnect ==
    /\ running
    /\ running' = FALSE
    /\ closed' = TRUE
    /\ consumers' = {}
    /\ UNCHANGED <<outsideBus, queueKind, handlers, channel, messages, dlq,
                   invoked,
                   nextMsgId>>

BusNext ==
    \/ \E e \in BusEvents, h \in BusHandlers : subscribe(e, h)
    \/ start_consumers
    \/ \E e \in BusEvents : \E raises \in SUBSET (1..Len(handlers[e])) :
          publish_memory(e, raises)
    \/ \E e \in BusEvents : \E p \in 1..MaxSubscriptions :
          publish_memory_reentrant(e, p)
    \/ \E e \in BusEvents : publish_redis(e)
    \/ \E e \in BusEvents : \E raises \in SUBSET (1..Len(handlers[e])) :
          consume_redis(e, raises)
    \/ disconnect

(***************************************************************************)
(* The processing pipeline: upload route, InvoiceProcessor, event          *)
(* handlers, ApprovalService, invoice and approval routes                  *)
(***************************************************************************)

\* Bounds of the pipeline model.
MaxApiCalls == 1
MaxRedeliveries == 1

\* InvoiceStatus of shared/db_models.py.
InvoiceStatus == {"uploaded", "processing", "extracted", "validated",
                  "review_pending", "pending", "review", "approved",
                  "rejected", "paid", "archived"}

\* The invoice scripts/init_db.py seeds and the invoice an upload creates.
SeededInvoices == {"inv-001"}
Uploads == {"inv-new"}
PipeInvoices == SeededInvoices \cup Uploads

\* Who calls process_invoice: the background task of the upload route and
\* the invoice.uploaded handler.
Sources == {"background", "handler"}

\* total_amount values the extraction can return.
Amounts == {450, 12500}

\* Handlers of register_all_handlers that only log.
LoggedEvents == {"invoice.approved", "invoice.rejected", "approval.requested",
                 "approval.assigned", "approval.completed", "system.error"}

\* register_all_handlers: one handler per event type.
RegisteredHandlers ==
    [e \in EventTypes |->
        <<CASE e = "invoice.uploaded" -> "on_invoice_uploaded"
            [] e = "invoice.processed" -> "on_invoice_processed"
            [] e = "invoice.approved" -> "on_invoice_approved"
            [] e = "invoice.rejected" -> "on_invoice_rejected"
            [] e = "approval.requested" -> "on_approval_requested"
            [] e = "approval.assigned" -> "on_approval_assigned"
            [] e = "approval.completed" -> "on_approval_completed"
            [] e = "system.error" -> "on_system_error">>]

NotRunning == [pc |-> "idle", amount |-> 0]

\* _create_demo_approvals: the pending demo task of the seeded invoice.
DemoApprovals ==
    [t \in {"apr-001"} |-> [invoice_id |-> "inv-001", status |-> "pending"]]

\* The variables of the pipeline when nothing has been uploaded.
PipeIdle ==
    /\ status = [i \in PipeInvoices |->
                    IF i \in SeededInvoices THEN "pending" ELSE "none"]
    /\ run = [r \in Uploads \X Sources |-> NotRunning]
    /\ tasks = <<>>
    /\ approval_tasks = DemoApprovals
    /\ apiCalls = 0
    /\ redelivered = 0

\* The bus after the gateway's startup: init_message_queue,
\* register_all_handlers, start_consumers.
BusStarted ==
    /\ queueKind \in {"redis", "memory"}
    /\ handlers = RegisteredHandlers
    /\ running = TRUE
    /\ consumers = IF queueKind = "redis" THEN EventTypes ELSE {}
    /\ channel = EmptyChannels
    /\ messages = <<>>
    /\ dlq = <<>>
    /\ invoked = <<>>
    /\ nextMsgId = 1
    /\ closed = FALSE

\* Message ids are given in publishing order.
Stamp(new) ==
    [k \in 1..Len(new) |->
        Message(nextMsgId + k - 1, new[k].event_type, new[k].data,
                new[k].correlation_id)]

\* PUBLISH on the Redis channels, one message after the other.
RECURSIVE Enqueue(_, _)
Enqueue(ch, ms) ==
    IF ms = <<>> THEN ch
    ELSE Enqueue([ch EXCEPT ![Head(ms).event_type] = Append(@, Head(ms))],
                 Tail(ms))

\* publish_event for handlers that only log: on the Redis queue the message
\* waits on its channel, on the in-memory queue the handler has returned
\* when publish returns.  `ch` is the channel state the publisher starts from.
publish_event(ch, new) ==
    /\ messages' = messages \o Stamp(new)
    /\ nextMsgId' = nextMsgId + Len(new)
    /\ channel' = IF queueKind = "redis" THEN Enqueue(ch, Stamp(new)) ELSE ch

\* ApprovalService._determine_approvers, amount-based routing.
determine_approvers(amount) ==
    IF amount < 500 THEN <<"auto-approve">>
    ELSE IF amount < 5000 THEN <<"manager">>
    ELSE IF amount < 50000 THEN <<"manager", "finance">>
    ELSE <<"manager", "finance", "director">>

\* The task ApprovalService.request_approval builds.
approval_task(invoice_id, amount) ==
    [task_id |-> Len(tasks) + 1, invoice_id |-> invoice_id,
     amount |-> amount, status |-> "pending",
     required_approvers |-> determine_approvers(amount)]

\* The events of request_approval: approval.requested, then approval.assigned
\* to the first approver.
approval_events(task) ==
    << [event_type |-> "approval.requested",
        data |-> [invoice_id |-> task.invoice_id,
                  required_approvers |-> task.required_approvers],
        correlation_id |-> <<"invoice", task.invoice_id>>],
       [event_type |-> "approval.assigned",
        data |-> [invoice_id |-> task.invoice_id, task_id |-> task.task_id,
                  approver_id |-> task.required_approvers[1]],
        correlation_id |-> <<"task", task.task_id>>] >>

\* InvoiceEventHandler.on_invoice_processed: the invoice is given status
\* EXTRACTED, then request_approval creates a task and publishes its events.
\* `before` are the messages the caller published before the handler ran
\* (the in-memory queue runs the handler inside publish).
on_invoice_processed(ch, before, invoice_id, amount) ==
    LET task == approval_task(invoice_id, amount)
    IN /\ status' = IF status[invoice_id] # "none"
                    THEN [status EXCEPT ![invoice_id] = "extracted"]
                    ELSE status
       /\ tasks' = Append(tasks, task)
       /\ publish_event(ch, before \o approval_events(task))

\* The frame of the pipeline's actions.
outsidePipe == <<smVars, libVars, queueKind, handlers, running, consumers, closed, dlq,
                 invoked>>

uploaded_event(invoice_id) ==
    [event_type |-> "invoice.uploaded",
     data |-> [invoice_id |-> invoice_id],
     correlation_id |-> <<"document", invoice_id>>]

processed_event(invoice_id, amount) ==
    [event_type |-> "invoice.processed",
     data |-> [invoice_id |-> invoice_id, total_amount |-> amount],
     correlation_id |-> <<"invoice", invoice_id>>]

error_event(invoice_id) ==
    [event_type |-> "system.error",
     data |-> [invoice_id |-> invoice_id, severity |-> "error",
               component |-> "invoice-processor"],
     correlation_id |-> "None"]

InFlight(r) == run[r].pc \in {"working", "saved", "failing"}
Finished(r) == run[r].pc \in {"done", "raised"}

\* POST /upload: create_invoice_record stores the invoice with status
\* UPLOADED, the background task is scheduled, invoice.uploaded is published;
\* on the in-memory queue on_invoice_uploaded starts inside publish.
upload_invoice(invoice_id) ==
    /\ status[invoice_id] = "none"
    /\ status' = [status EXCEPT ![invoice_id] = "uploaded"]
    /\ run' = [run EXCEPT
                 ![<<invoice_id, "background">>].pc = "scheduled",
                 ![<<invoice_id, "handler">>].pc =
                     IF queueKind = "memory" THEN "called" ELSE @]
    /\ publish_event(channel, <<uploaded_event(invoice_id)>>)
    /\ UNCHANGED <<outsidePipe, tasks, approval_tasks, apiCalls, redelivered>>

\* The invoice.uploaded consumer takes the next message and calls
\* on_invoice_uploaded, which calls process_invoice; the consumer awaits the
\* handler before it takes another message.
consume_uploaded ==
    /\ queueKind = "redis"
    /\ channel["invoice.uploaded"] # <<>>
    /\ \A i \in Uploads : run[<<i, "handler">>].pc \in {"idle", "done", "raised"}
    /\ LET invoice_id == Head(channel["invoice.uploaded"]).data.invoice_id
       IN run' = [run EXCEPT ![<<invoice_id, "handler">>].pc = "called"]
    /\ channel' = [channel EXCEPT !["invoice.uploaded"] = Tail(@)]
    /\ UNCHANGED <<outsidePipe, messages, nextMsgId, status, tasks,
                   approval_tasks, apiCalls, redelivered>>

\* process_invoice step 1: _update_invoice_status(invoice_id, "processing").
\* The background task of an upload starts once the request has returned,
\* which on the in-memory queue is after the handler's run.
process_invoice_start(invoice_id, source) ==
    /\ run[<<invoice_id, source>>].pc =
          IF source = "background" THEN "scheduled" ELSE "called"
    /\ (source = "background" /\ queueKind = "memory")
          => Finished(<<invoice_id, "handler">>)
    /\ status' = [status EXCEPT ![invoice_id] = "processing"]
    /\ run' = [run EXCEPT ![<<invoice_id, source>>].pc = "working"]
    /\ UNCHANGED <<outsidePipe, channel, messages, nextMsgId, tasks,
                   approval_tasks, apiCalls, redelivered>>

\* process_invoice steps 2 to 6: OCR, extraction and summary succeed and
\* _update_invoice_with_data stores the fields with status EXTRACTED.
process_invoice_extracted(invoice_id, source, amount) ==
    /\ run[<<invoice_id, source>>].pc = "working"
    /\ status' = [status EXCEPT ![invoice_id] = "extracted"]
    /\ run' = [run EXCEPT ![<<invoice_id, source>>] =
                              [pc |-> "saved", amount |-> amount]]
    /\ UNCHANGED <<outsidePipe, channel, messages, nextMsgId, tasks,
                   approval_tasks, apiCalls, redelivered>>

\* process_invoice, a step of 2 to 5 raises: the except branch calls
\* _update_invoice_status(invoice_id, "uploaded").
process_invoice_failed(invoice_id, source) ==
    /\ run[<<invoice_id, source>>].pc = "working"
    /\ status' = [status EXCEPT ![invoice_id] = "uploaded"]
    /\ run' = [run EXCEPT ![<<invoice_id, source>>].pc = "failing"]
    /\ UNCHANGED <<outsidePipe, channel, messages, nextMsgId, tasks,
                   approval_tasks, apiCalls, redelivered>>

\* process_invoice step 7: publish invoice.processed and return; on the
\* in-memory queue on_invoice_processed runs inside publish.
process_invoice_publish(invoice_id, source) ==
    LET amount == run[<<invoice_id, source>>].amount
    IN /\ run[<<invoice_id, source>>].pc = "saved"
       /\ run' = [run EXCEPT ![<<invoice_id, source>>].pc = "done"]
       /\ IF queueKind = "memory"
          THEN on_invoice_processed(channel,
                                    <<processed_event(invoice_id, amount)>>,
                                    invoice_id, amount)
          ELSE /\ publish_event(channel,
                                <<processed_event(invoice_id, amount)>>)
               /\ UNCHANGED <<status, tasks>>
       /\ UNCHANGED <<outsidePipe, approval_tasks, apiCalls, redelivered>>

\* process_invoice's except branch, continued: _publish_error_event, then
\* the exception is raised again; both callers catch and log it.
process_invoice_raise(invoice_id, source) ==
    /\ run[<<invoice_id, source>>].pc = "failing"
    /\ run' = [run EXCEPT ![<<invoice_id, source>>].pc = "raised"]
    /\ publish_event(channel, <<error_event(invoice_id)>>)
    /\ UNCHANGED <<outsidePipe, status, tasks, approval_tasks, apiCalls,
                   redelivered>>

\* The invoice.processed consumer takes the next message and runs
\* on_invoice_processed.
consume_processed ==
    /\ queueKind = "redis"
    /\ channel["invoice.processed"] # <<>>
    /\ LET msg == Head(channel["invoice.processed"])
       IN on_invoice_processed(
              [channel EXCEPT !["invoice.processed"] = Tail(@)], <<>>,
              msg.data.invoice_id, msg.data.total_amount)
    /\ UNCHANGED <<outsidePipe, run, approval_tasks, apiCalls, redelivered>>

\* A second gateway process subscribed to the same pub/sub channel receives
\* every message as well: on_invoice_processed runs again for a message that
\* has been handled.
redeliver_processed(k) ==
    /\ queueKind = "redis"
    /\ redelivered < MaxRedeliveries
    /\ messages[k].event_type = "invoice.processed"
    /\ \A c \in DOMAIN channel["invoice.processed"] :
          channel["invoice.processed"][c].id # messages[k].id
    /\ redelivered' = redelivered + 1
    /\ on_invoice_processed(channel, <<>>, messages[k].data.invoice_id,
                            messages[k].data.total_amount)
    /\ UNCHANGED <<outsidePipe, run, approval_tasks, apiCalls>>

\* The consumers of the event types whose handler only logs:
\* on_invoice_approved, on_invoice_rejected, on_approval_requested,
\* on_approval_assigned, on_approval_completed, on_system_error.
consume_logged(event_type) ==
    /\ queueKind = "redis"
    /\ channel[event_type] # <<>>
    /\ channel' = [channel EXCEPT ![event_type] = Tail(@)]
    /\ UNCHANGED <<outsidePipe, messages, nextMsgId, pipeVars>>

\* PATCH /invoices/{id} with a status: any InvoiceStatus value is stored.
update_invoice(invoice_id, new_status) ==
    /\ apiCalls < MaxApiCalls
    /\ status[invoice_id] # "none"
    /\ status' = [status EXCEPT ![invoice_id] = new_status]
    /\ apiCalls' = apiCalls + 1
    /\ UNCHANGED <<outsidePipe, channel, messages, nextMsgId, run, tasks,
                   approval_tasks, redelivered>>

\* DELETE /invoices/{id}: the invoice is archived.
delete_invoice(invoice_id) ==
    /\ apiCalls < MaxApiCalls
    /\ status[invoice_id] # "none"
    /\ status' = [status EXCEPT ![invoice_id] = "archived"]
    /\ apiCalls' = apiCalls + 1
    /\ UNCHANGED <<outsidePipe, channel, messages, nextMsgId, run, tasks,
                   approval_tasks, redelivered>>

\* The events of ApprovalService.process_approval_decision.
decision_events(task_id, invoice_id, decision) ==
    << [event_type |-> "approval.completed",
        data |-> [invoice_id |-> invoice_id, task_id |-> task_id,
                  approver_id |-> "current_user", decision |-> decision],
        correlation_id |-> <<"task", task_id>>],
       IF decision = "approved"
       THEN [event_type |-> "invoice.approved",
             data |-> [invoice_id |-> invoice_id,
                       approver |-> "current_user"],
             correlation_id |-> <<"invoice", invoice_id>>]
       ELSE [event_type |-> "invoice.rejected",
             data |-> [invoice_id |-> invoice_id,
                       rejector |-> "current_user"],
             correlation_id |-> <<"invoice", invoice_id>>] >>

\* POST /approvals/{task_id}/action with approve or reject: the stored task
\* must be pending; its status is set and process_approval_decision
\* publishes approval.completed and invoice.approved / invoice.rejected.
process_approval_action(task_id, decision) ==
    /\ approval_tasks[task_id].status = "pending"
    /\ approval_tasks' = [approval_tasks EXCEPT ![task_id].status = decision]
    /\ publish_event(channel,
                     decision_events(task_id,
                                     approval_tasks[task_id].invoice_id,
                                     decision))
    /\ UNCHANGED <<outsidePipe, status, run, tasks, apiCalls, redelivered>>

\* The pipeline of an uploaded invoice.
PipeNext ==
    \/ \E i \in Uploads : upload_invoice(i)
    \/ consume_uploaded
    \/ \E i \in Uploads, src \in Sources : process_invoice_start(i, src)
    \/ \E i \in Uploads, src \in Sources, amount \in Amounts :
          process_invoice_extracted(i, src, amount)
    \/ \E i \in Uploads, src \in Sources : process_invoice_failed(i, src)
    \/ \E i \in Uploads, src \in Sources : process_invoice_publish(i, src)
    \/ \E i \in Uploads, src \in Sources : process_invoice_raise(i, src)
    \/ consume_processed
    \/ \E k \in DOMAIN messages : redeliver_processed(k)
    \/ \E e \in LoggedEvents : consume_logged(e)
    \/ \E i \in Uploads : delete_invoice(i)
    \/ \E i \in Uploads, s \in InvoiceStatus : update_invoice(i, s)

\* The approval route and the invoice routes on a seeded invoice.
ApprovalNext ==
    \/ \E t \in DOMAIN approval_tasks, d \in {"approved", "rejected"} :
          process_approval_action(t, d)
    \/ \E e \in LoggedEvents : consume_logged(e)
    \/ \E i \in SeededInvoices : delete_invoice(i)
    \/ \E i \in SeededInvoices, s \in InvoiceStatus : update_invoice(i, s)

(***************************************************************************)
(* SLAManager                                                              *)
(***************************************************************************)

\* Bounds of the SLA model: the clock, and the latest hour a record is
\* created.
MaxClock == 74
MaxCreateAt == 1

SlaInvoices == {"inv-1"}
Stages == {"processing", "review", "approval", "other"}

\* SLAConfig(): the defaults; warning_threshold 0.75 is kept in percent.
DefaultConfig ==
    [processing_hours |-> 24, review_hours |-> 48, approval_hours |-> 72,
     warning_percent |-> 75, first_reminder_hours |-> 4,
     manager_escalation_hours |-> 8, director_escalation_hours |-> 24]

\* SLAConfig(processing_hours=8): a deadline short enough for the warning
\* zone to begin before the manager escalation hour.
ShortConfig == [DefaultConfig EXCEPT !.processing_hours = 8]

\* EscalationLevel is a str enum: `a.value < b.value` compares the strings.
ValueOrder == <<"director", "executive", "manager", "none", "reminder">>
IndexIn(seq, x) == CHOOSE k \in DOMAIN seq : seq[k] = x
value_less(a, b) == IndexIn(ValueOrder, a) < IndexIn(ValueOrder, b)

\* get_escalation_action returns None or one action.
NoAction == [type |-> "None", level |-> "none"]

NoSlaCall == [op |-> "none", action |-> NoAction]

SlaIdle ==
    /\ slaConfig = DefaultConfig
    /\ slaNow = 0
    /\ slaRecords = [i \in {} |-> 0]
    /\ slaCall = NoSlaCall

\* SLAManager(config): no records.
SlaInit ==
    /\ slaConfig \in {DefaultConfig, ShortConfig}
    /\ slaNow = 0
    /\ slaRecords = [i \in {} |-> 0]
    /\ slaCall = NoSlaCall

\* create_sla: the deadline of the stage.
stage_hours(config, stage) ==
    CASE stage = "processing" -> config.processing_hours
      [] stage = "review" -> config.review_hours
      [] stage = "approval" -> config.approval_hours
      [] OTHER -> 24

SLARecord(created_at, deadline) ==
    [created_at |-> created_at, deadline |-> deadline, status |-> "on_track",
     current_escalation |-> "none", reminder_count |-> 0,
     breached_at |-> "None"]

\* check_sla on a record at time `now`:
\*   time_to_deadline <= 0                                   -> BREACHED
\*   time_to_deadline < total_time * (1 - warning_threshold) -> WARNING
checked(config, record, now) ==
    LET time_to_deadline == record.deadline - now
        total_time == record.deadline - record.created_at
    IN IF time_to_deadline <= 0
       THEN IF record.status # "breached"
            THEN [record EXCEPT !.status = "breached", !.breached_at = now]
            ELSE record
       ELSE IF 100 * time_to_deadline
                  < total_time * (100 - config.warning_percent)
            THEN IF record.status = "on_track"
                 THEN [record EXCEPT !.status = "warning"]
                 ELSE record
            ELSE record

\* Mutant: the levels are assigned without the guard, and a breached record
\* is moved to MANAGER.
escalated_to_manager(config, record, now) ==
    LET hours_elapsed == now - record.created_at
        same == [record |-> record, action |-> NoAction]
        to(level) == [record |-> [record EXCEPT !.current_escalation = level],
                      action |-> [type |-> "escalate", level |-> level]]
    IN IF record.status = "breached" THEN to("manager")
       ELSE IF record.status = "warning"
       THEN IF hours_elapsed >= config.director_escalation_hours
            THEN to("director")
            ELSE IF hours_elapsed >= config.manager_escalation_hours
            THEN to("manager")
            ELSE same
       ELSE same

\* The body of get_escalation_action after check_sla: the record it leaves
\* and the action it returns ("None" if none).
escalated(config, record, now) ==
    LET hours_elapsed == now - record.created_at
        current == record.current_escalation
        same == [record |-> record, action |-> NoAction]
        to(level) == [record |-> [record EXCEPT !.current_escalation = level],
                      action |-> [type |-> "escalate", level |-> level]]
    IN IF record.status = "breached"
       THEN IF value_less(current, "executive") THEN to("executive") ELSE same
       ELSE IF record.status = "warning"
       THEN IF hours_elapsed >= config.director_escalation_hours
            THEN IF value_less(current, "director") THEN to("director")
                 ELSE same
            ELSE IF hours_elapsed >= config.manager_escalation_hours
            THEN IF value_less(current, "manager") THEN to("manager")
                 ELSE same
            ELSE IF hours_elapsed >= config.first_reminder_hours
            THEN IF record.reminder_count < 3
                 THEN [record |-> [record EXCEPT !.reminder_count = @ + 1],
                       action |-> [type |-> "reminder", level |-> "reminder"]]
                 ELSE same
            ELSE same
       ELSE same

outsideSla == <<smVars, busVars, pipeVars, rulesVars, dupVars, riskVars,
    auditVars, poVars>>

create_sla(invoice_id, stage) ==
    /\ slaNow <= MaxCreateAt
    /\ slaRecords' =
          [i \in DOMAIN slaRecords \cup {invoice_id} |->
              IF i = invoice_id
              THEN SLARecord(slaNow, slaNow + stage_hours(slaConfig, stage))
              ELSE slaRecords[i]]
    /\ slaCall' = [op |-> "create_sla", action |-> NoAction]
    /\ UNCHANGED <<outsideSla, slaConfig, slaNow>>

check_sla(invoice_id) ==
    /\ IF invoice_id \in DOMAIN slaRecords
       THEN /\ slaRecords' =
                 [slaRecords EXCEPT
                    ![invoice_id] = checked(slaConfig, @, slaNow)]
            /\ slaCall' = [op |-> "check_sla", action |-> NoAction]
       ELSE /\ slaCall' = [op |-> "check_sla", action |-> NoAction]
            /\ UNCHANGED slaRecords
    /\ UNCHANGED <<outsideSla, slaConfig, slaNow>>

get_escalation_action(invoice_id) ==
    /\ IF invoice_id \in DOMAIN slaRecords
       THEN LET out == escalated(slaConfig,
                                 checked(slaConfig, slaRecords[invoice_id],
                                         slaNow),
                                 slaNow)
            IN /\ slaRecords' = [slaRecords EXCEPT ![invoice_id] = out.record]
               /\ slaCall' = [op |-> "get_escalation_action",
                              action |-> out.action]
       ELSE /\ slaCall' = [op |-> "get_escalation_action",
                           action |-> NoAction]
            /\ UNCHANGED slaRecords
    /\ UNCHANGED <<outsideSla, slaConfig, slaNow>>

\* complete_sla removes the record.
complete_sla(invoice_id) ==
    /\ invoice_id \in DOMAIN slaRecords
    /\ slaRecords' = [i \in DOMAIN slaRecords \ {invoice_id} |-> slaRecords[i]]
    /\ slaCall' = [op |-> "complete_sla", action |-> NoAction]
    /\ UNCHANGED <<outsideSla, slaConfig, slaNow>>

\* An hour passes.
clock_tick ==
    /\ slaNow < MaxClock
    /\ slaNow' = slaNow + 1
    /\ slaCall' = NoSlaCall
    /\ UNCHANGED <<outsideSla, slaConfig, slaRecords>>

SlaNext ==
    \/ \E i \in SlaInvoices, st \in Stages : create_sla(i, st)
    \/ \E i \in SlaInvoices : check_sla(i)
    \/ \E i \in SlaInvoices : get_escalation_action(i)
    \/ \E i \in SlaInvoices : complete_sla(i)
    \/ clock_tick

\* ---------------------------------------------------------------------
\* ApprovalRulesEngine (workflow-service/approval_rules/engine.py).
\* ---------------------------------------------------------------------

\* Values of invoice fields and of rule conditions: None, a number, a string
\* or a boolean.
None == [kind |-> "none", num |-> 0, str |-> ""]
Num(n) == [kind |-> "num", num |-> n, str |-> ""]
Str(s) == [kind |-> "str", num |-> 0, str |-> s]
Bool(b) == [kind |-> "bool", num |-> 0, str |-> IF b THEN "True" ELSE "False"]

\* The fields of the ApprovalRule dataclass in declaration order, and whether
\* the declaration gives each a default.
ApprovalRuleFields ==
    << [name |-> "id", has_default |-> FALSE],
       [name |-> "name", has_default |-> FALSE],
       [name |-> "description", has_default |-> FALSE],
       [name |-> "conditions", has_default |-> FALSE],
       [name |-> "condition_logic", has_default |-> TRUE],
       [name |-> "actions", has_default |-> FALSE],
       [name |-> "priority", has_default |-> TRUE],
       [name |-> "active", has_default |-> TRUE] >>

\* @dataclass builds __init__ from the fields; it raises TypeError ("non-
\* default argument follows default argument") when a field without a
\* default is declared after one with a default.
dataclass_accepts(fields) ==
    \A i, j \in DOMAIN fields :
        (i < j /\ fields[i].has_default) => fields[j].has_default

RuleCondition(field, operator, value) ==
    [field |-> field, operator |-> operator, value |-> value]

RuleActionOf(type, param) == [type |-> type, param |-> param]

ApprovalRule(id, conditions, actions, priority, active) ==
    [id |-> id, conditions |-> conditions, condition_logic |-> "AND",
     actions |-> actions, priority |-> priority, active |-> active]

\* _load_default_rules.
DefaultRules ==
    << ApprovalRule("auto_approve_low",
           << RuleCondition("total_amount", "less_than", Num(500)),
              RuleCondition("vendor.is_verified", "equals", Bool(TRUE)) >>,
           << RuleActionOf("auto_approve", "") >>, 100, TRUE),
       ApprovalRule("manager_approval",
           << RuleCondition("total_amount", "greater_or_equal", Num(500)),
              RuleCondition("total_amount", "less_than", Num(5000)) >>,
           << RuleActionOf("require_approval", "manager") >>, 90, TRUE),
       ApprovalRule("director_approval",
           << RuleCondition("total_amount", "greater_or_equal", Num(5000)),
              RuleCondition("total_amount", "less_than", Num(25000)) >>,
           << RuleActionOf("require_approval", "director") >>, 80, TRUE),
       ApprovalRule("executive_approval",
           << RuleCondition("total_amount", "greater_or_equal", Num(25000)) >>,
           << RuleActionOf("require_approval", "executive"),
              RuleActionOf("set_priority", "high") >>, 70, TRUE),
       ApprovalRule("high_risk_vendor",
           << RuleCondition("vendor.risk_level", "equals", Str("high")) >>,
           << RuleActionOf("escalate", "finance_manager"),
              RuleActionOf("add_tag", "high_risk_vendor") >>, 150, TRUE) >>

\* Rules a caller adds: a terminal rule above the defaults, a switched-off
\* replacement of a default rule, and a rule without conditions.
AddedRules ==
    { ApprovalRule("reject_unverified",
          << RuleCondition("vendor.is_verified", "equals", Bool(FALSE)) >>,
          << RuleActionOf("auto_reject", "") >>, 120, TRUE),
      ApprovalRule("manager_approval",
          << RuleCondition("total_amount", "greater_or_equal", Num(500)) >>,
          << RuleActionOf("require_approval", "manager") >>, 90, FALSE),
      ApprovalRule("notify_all", << >>,
          << RuleActionOf("send_notification", "finance") >>, 90, TRUE) }

RuleIds == {"auto_approve_low", "manager_approval", "reject_unverified"}

\* The invoices evaluate is called with.
RuleInvoices ==
    [total_amount : {Num(100), Num(499), Num(500), Num(4999), Num(5000),
                     Num(25000)},
     is_verified : {Bool(TRUE), Bool(FALSE), None},
     risk_level : {Str("high"), Str("low"), None}]

NoRulesCall == [op |-> "none", raised |-> "None", actions |-> << >>,
                data |-> "None"]

RulesIdle ==
    /\ engineModule = "not_imported"
    /\ rules = << >>
    /\ rulesCall = NoRulesCall

\* RuleCondition.evaluate, the walk along the dotted field name.
field_value(data, field) ==
    CASE field = "total_amount" -> data.total_amount
      [] field = "vendor.is_verified" -> data.is_verified
      [] field = "vendor.risk_level" -> data.risk_level
      [] OTHER -> None

\* RuleCondition.evaluate.  The numeric operators are given to numeric
\* fields only, so float() does not raise.
condition_evaluate(c, data) ==
    LET v == field_value(data, c.field) IN
    IF v = None THEN FALSE
    ELSE CASE c.operator = "equals" -> v = c.value
           [] c.operator = "not_equals" -> v # c.value
           [] c.operator = "greater_than" -> v.num > c.value.num
           [] c.operator = "less_than" -> v.num < c.value.num
           [] c.operator = "greater_or_equal" -> v.num >= c.value.num
           [] c.operator = "less_or_equal" -> v.num <= c.value.num
           [] OTHER -> FALSE

\* ApprovalRule.matches.
matches(rule, data) ==
    IF rule.conditions = << >> THEN TRUE
    ELSE IF rule.condition_logic = "AND"
         THEN \A k \in DOMAIN rule.conditions :
                  condition_evaluate(rule.conditions[k], data)
         ELSE \E k \in DOMAIN rule.conditions :
                  condition_evaluate(rule.conditions[k], data)

Without(seq, k) ==
    [j \in 1..(Len(seq) - 1) |-> IF j < k THEN seq[j] ELSE seq[j + 1]]

\* sorted(..., key=priority, reverse=True): a stable sort, rules of equal
\* priority keep their insertion order.
RECURSIVE sorted_by_priority(_)
sorted_by_priority(seq) ==
    IF seq = << >> THEN << >>
    ELSE LET k == CHOOSE k \in DOMAIN seq :
                      \A j \in DOMAIN seq :
                          \/ seq[j].priority < seq[k].priority
                          \/ seq[j].priority = seq[k].priority /\ j >= k
         IN <<seq[k]>> \o sorted_by_priority(Without(seq, k))

active_rules(rs) == SelectSeq(rs, LAMBDA r : r.active)

is_terminal(rule) ==
    \E k \in DOMAIN rule.actions :
        rule.actions[k].type \in {"auto_approve", "auto_reject"}

emitted(rule) ==
    [k \in DOMAIN rule.actions |->
        [rule_id |-> rule.id, type |-> rule.actions[k].type,
         param |-> rule.actions[k].param]]

\* The loop of evaluate over the sorted rules.
RECURSIVE evaluate_from(_, _)
evaluate_from(sorted, data) ==
    IF sorted = << >> THEN << >>
    ELSE LET rule == Head(sorted) IN
         IF matches(rule, data)
         THEN emitted(rule) \o (IF is_terminal(rule) THEN << >>
                                ELSE evaluate_from(Tail(sorted), data))
         ELSE evaluate_from(Tail(sorted), data)

\* ApprovalRulesEngine.evaluate.
evaluate(rs, data) == evaluate_from(sorted_by_priority(active_rules(rs)), data)

RECURSIVE approver_levels(_, _)
approver_levels(actions, approvers) ==
    IF actions = << >> THEN approvers
    ELSE LET a == Head(actions) IN
         approver_levels(Tail(actions),
             IF a.type = "require_approval"
                /\ \A k \in DOMAIN approvers : approvers[k] # a.param
             THEN Append(approvers, a.param) ELSE approvers)

outsideRules == <<smVars, busVars, pipeVars, slaVars, dupVars, riskVars,
    auditVars, poVars>>

\* `from approval_rules import ...`: the module body runs; the ApprovalRule
\* dataclass is created before ApprovalRulesEngine and the module-level
\* engine.  When the dataclass is refused the import raises and none of the
\* names exists; a later import runs the module body again.
import_engine ==
    /\ engineModule # "imported"
    /\ IF dataclass_accepts(ApprovalRuleFields)
       THEN /\ engineModule' = "imported"
            /\ rules' = DefaultRules
            /\ rulesCall' = [NoRulesCall EXCEPT !.op = "import"]
       ELSE /\ engineModule' = "TypeError"
            /\ rules' = rules
            /\ rulesCall' = [NoRulesCall EXCEPT !.op = "import",
                                                !.raised = "TypeError"]
    /\ UNCHANGED outsideRules

\* A call made by a client whose import raised never reaches the engine.
import_raised(op, data) ==
    /\ engineModule = "TypeError"
    /\ rulesCall' = [op |-> op, raised |-> "TypeError", actions |-> << >>,
                     data |-> data]
    /\ UNCHANGED <<engineModule, rules>>

evaluate_call(data) ==
    /\ engineModule # "not_imported"
    /\ \/ import_raised("evaluate", data)
       \/ /\ engineModule = "imported"
          /\ rulesCall' = [op |-> "evaluate", raised |-> "None",
                           actions |-> evaluate(rules, data), data |-> data]
          /\ UNCHANGED <<engineModule, rules>>
    /\ UNCHANGED outsideRules

get_required_approvers(data) ==
    /\ engineModule # "not_imported"
    /\ \/ import_raised("get_required_approvers", data)
       \/ /\ engineModule = "imported"
          /\ rulesCall' = [op |-> "get_required_approvers", raised |-> "None",
                           actions |-> approver_levels(evaluate(rules, data),
                                                       << >>),
                           data |-> data]
          /\ UNCHANGED <<engineModule, rules>>
    /\ UNCHANGED outsideRules

add_rule(rule) ==
    /\ engineModule # "not_imported"
    /\ \/ import_raised("add_rule", rule.id)
       \/ /\ engineModule = "imported"
          /\ rules' = IF \E k \in DOMAIN rules : rules[k].id = rule.id
                      THEN [k \in DOMAIN rules |->
                               IF rules[k].id = rule.id THEN rule
                               ELSE rules[k]]
                      ELSE Append(rules, rule)
          /\ rulesCall' = [NoRulesCall EXCEPT !.op = "add_rule",
                                              !.data = rule.id]
          /\ UNCHANGED engineModule
    /\ UNCHANGED outsideRules

remove_rule(rule_id) ==
    /\ engineModule # "not_imported"
    /\ \/ import_raised("remove_rule", rule_id)
       \/ /\ engineModule = "imported"
          /\ rules' = SelectSeq(rules, LAMBDA r : r.id # rule_id)
          /\ rulesCall' = [NoRulesCall EXCEPT !.op = "remove_rule",
                                              !.data = rule_id]
          /\ UNCHANGED engineModule
    /\ UNCHANGED outsideRules

RulesNext ==
    \/ import_engine
    \/ \E data \in RuleInvoices : evaluate_call(data)
    \/ \E data \in RuleInvoices : get_required_approvers(data)
    \/ \E rule \in AddedRules : add_rule(rule)
    \/ \E rule_id \in RuleIds : remove_rule(rule_id)

\* ---------------------------------------------------------------------
\* DuplicateDetector (ingestion-service/duplicate_detection/detector.py).
\* ---------------------------------------------------------------------

MaxDocuments == 2

\* Tenant ids, and content hashes as compute_content_hash makes them: hex
\* digests of one fixed length (two digits stand for the 64 of SHA-256).
Tenants == {"t1", "t1:ab"}
Hashes == {"ab", "cd"}

OptionalFields(vendor_name, vendor_id, invoice_number, amount) ==
    [vendor_name |-> vendor_name, vendor_id |-> vendor_id,
     invoice_number |-> invoice_number, amount |-> amount]

\* The optional fields of a registration: none, all, or a vendor and an
\* invoice number without vendor id and amount.
RegisteredFields ==
    { OptionalFields(None, None, None, None),
      OptionalFields(Str("Acme"), Str("V1"), Str("INV1"), Num(100)),
      OptionalFields(Str("Acme"), None, Str("INV1"), None) }

\* The optional fields of a check: none, all, a vendor and an invoice
\* number, a vendor and an amount, a vendor and a zero amount.
CheckedFields ==
    { OptionalFields(None, None, None, None),
      OptionalFields(Str("Acme"), Str("V1"), Str("INV1"), Num(100)),
      OptionalFields(Str("Acme"), None, Str("INV1"), None),
      OptionalFields(Str("acme"), None, None, Num(110)),
      OptionalFields(Str("acme"), Str("V1"), None, Num(0)) }

NoDupCall == [op |-> "none", raised |-> "None", tenant |-> "", hash |-> "",
              matches |-> << >>]

\* DuplicateDetector.__init__.
DupIdle ==
    /\ hash_index = << >>
    /\ vendor_index = << >>
    /\ dupCall = NoDupCall
    /\ registered = << >>

\* Python truth value of an optional field.
truthy(v) ==
    /\ v # None
    /\ ~(v.kind = "str" /\ v.str = "")
    /\ ~(v.kind = "num" /\ v.num = 0)

\* str.lower on the vendor names in use.
lower(s) == IF s = "Acme" THEN "acme" ELSE s

\* f"{tenant_id}:{content_hash}"
hash_key(tenant_id, content_hash) == tenant_id \o ":" \o content_hash

\* f"{tenant_id}:{vendor_id or vendor_name}:{invoice_number}"
vendor_invoice_key(tenant_id, vendor_name, vendor_id, invoice_number) ==
    tenant_id \o ":"
        \o (IF truthy(vendor_id) THEN vendor_id.str ELSE vendor_name.str)
        \o ":" \o invoice_number.str

\* f"{tenant_id}:{vendor_name.lower()}"
vendor_name_key(tenant_id, vendor_name) ==
    tenant_id \o ":" \o lower(vendor_name.str)

\* index[key].append(record), the list created when the key is new.
appended(index, key, record) ==
    [k \in DOMAIN index \cup {key} |->
        IF k = key
        THEN IF key \in DOMAIN index THEN Append(index[key], record)
             ELSE <<record>>
        ELSE index[k]]

DuplicateMatch(original_id, match_type, confidence) ==
    [original_id |-> original_id, match_type |-> match_type,
     confidence |-> confidence]

\* _amount_similarity(a, b), in hundredths; a is a number, b what the record
\* holds.  With b None neither zero test is true and a - b raises TypeError.
amount_similarity(a, b) ==
    IF b # None /\ a.num = 0 /\ b.num = 0
    THEN [raised |-> "None", value |-> 100]
    ELSE IF a.num = 0 \/ (b # None /\ b.num = 0)
    THEN [raised |-> "None", value |-> 0]
    ELSE IF b = None THEN [raised |-> "TypeError", value |-> 0]
    ELSE LET diff == IF a.num >= b.num THEN a.num - b.num ELSE b.num - a.num
             largest == IF a.num >= b.num THEN a.num ELSE b.num
         IN [raised |-> "None",
             value |-> IF 100 * diff <= largest THEN 100
                       ELSE IF 10 * diff <= largest THEN 80
                       ELSE IF 5 * diff <= largest THEN 50
                       ELSE 0]

\* Mutant of hash_duplicate: the newest record under the key.
hash_duplicate_newest(index, content_hash, tenant_id) ==
    LET key == hash_key(tenant_id, content_hash) IN
    IF key \in DOMAIN index /\ index[key] # << >>
    THEN <<DuplicateMatch(index[key][Len(index[key])].document_id,
                          "exact_hash", 100)>>
    ELSE << >>

\* check_hash_duplicate: the first record under the key, if any.
hash_duplicate(index, content_hash, tenant_id) ==
    LET key == hash_key(tenant_id, content_hash) IN
    IF key \in DOMAIN index /\ index[key] # << >>
    THEN <<DuplicateMatch(index[key][1].document_id, "exact_hash", 100)>>
    ELSE << >>

\* check_vendor_invoice_duplicate.
vendor_invoice_duplicate(index, vendor_name, vendor_id, invoice_number, tenant_id) ==
    IF ~truthy(invoice_number) THEN << >>
    ELSE IF ~(truthy(vendor_id) \/ truthy(vendor_name)) THEN << >>
    ELSE LET key == vendor_invoice_key(tenant_id, vendor_name, vendor_id,
                                       invoice_number)
         IN IF key \in DOMAIN index /\ index[key] # << >>
            THEN <<DuplicateMatch(index[key][1].document_id,
                                  "vendor_invoice_number", 95)>>
            ELSE << >>

\* The loop of check_similar_invoice over the records of one vendor, all of
\* them uploaded within the last 7 days.
RECURSIVE similar_among(_, _)
similar_among(records, amount) ==
    IF records = << >> THEN [raised |-> "None", matches |-> << >>]
    ELSE LET record == Head(records)
             similarity == amount_similarity(amount, record.amount)
         IN IF similarity.raised # "None"
            THEN [raised |-> similarity.raised, matches |-> << >>]
            ELSE IF similarity.value > 95
            THEN [raised |-> "None",
                  matches |-> <<DuplicateMatch(record.document_id,
                                               "similar_amount", 70)>>]
            ELSE similar_among(Tail(records), amount)

\* check_similar_invoice.
similar_invoice(index, vendor_name, amount, tenant_id) ==
    IF ~truthy(vendor_name) \/ amount.num <= 0
    THEN [raised |-> "None", matches |-> << >>]
    ELSE LET key == vendor_name_key(tenant_id, vendor_name) IN
         IF key \in DOMAIN index THEN similar_among(index[key], amount)
         ELSE [raised |-> "None", matches |-> << >>]

\* The body of check_all; the three strategies append in descending
\* confidence, so the final stable sort leaves the list as it is.
all_checks(content_hash, tenant_id, vendor_name, vendor_id, invoice_number, amount) ==
    LET hash_match == hash_duplicate(hash_index, content_hash, tenant_id)
        vendor_match ==
            IF truthy(vendor_name) /\ truthy(invoice_number)
            THEN vendor_invoice_duplicate(vendor_index, vendor_name,
                                          vendor_id, invoice_number, tenant_id)
            ELSE << >>
        similar_match ==
            IF truthy(vendor_name) /\ truthy(amount)
            THEN similar_invoice(vendor_index, vendor_name, amount, tenant_id)
            ELSE [raised |-> "None", matches |-> << >>]
    IN [raised |-> similar_match.raised,
        matches |-> IF similar_match.raised # "None" THEN << >>
                    ELSE hash_match \o vendor_match \o similar_match.matches]

\* The documents registered so far.
DocumentIds ==
    UNION {{hash_index[k][j].document_id : j \in DOMAIN hash_index[k]} :
              k \in DOMAIN hash_index}

outsideDup == <<smVars, busVars, pipeVars, slaVars, rulesVars, riskVars,
    auditVars, poVars>>

register_document(tenant_id, content_hash, vendor_name, vendor_id, invoice_number, amount) ==
    /\ Cardinality(DocumentIds) < MaxDocuments
    /\ LET record == [document_id |-> Cardinality(DocumentIds) + 1,
                      amount |-> amount, invoice_number |-> invoice_number]
           by_invoice ==
               IF truthy(vendor_name) /\ truthy(invoice_number)
               THEN appended(vendor_index,
                             vendor_invoice_key(tenant_id, vendor_name,
                                                vendor_id, invoice_number),
                             record)
               ELSE vendor_index
       IN /\ hash_index' = appended(hash_index,
                                    hash_key(tenant_id, content_hash), record)
          /\ vendor_index' =
                 IF truthy(vendor_name)
                 THEN appended(by_invoice,
                               vendor_name_key(tenant_id, vendor_name), record)
                 ELSE by_invoice
    /\ dupCall' = [NoDupCall EXCEPT !.op = "register_document",
                                    !.tenant = tenant_id,
                                    !.hash = content_hash]
    /\ registered' = Append(registered,
                            [document_id |-> Cardinality(DocumentIds) + 1,
                             tenant |-> tenant_id, hash |-> content_hash])
    /\ UNCHANGED outsideDup

check_hash_duplicate(content_hash, tenant_id) ==
    /\ dupCall' = [op |-> "check_hash_duplicate", raised |-> "None",
                   tenant |-> tenant_id, hash |-> content_hash,
                   matches |-> hash_duplicate(hash_index, content_hash,
                                              tenant_id)]
    /\ UNCHANGED <<hash_index, vendor_index, registered, outsideDup>>

check_all(content_hash, tenant_id, vendor_name, vendor_id, invoice_number, amount) ==
    /\ LET result == all_checks(content_hash, tenant_id, vendor_name,
                                vendor_id, invoice_number, amount)
       IN dupCall' = [op |-> "check_all", raised |-> result.raised,
                      tenant |-> tenant_id, hash |-> content_hash,
                      matches |-> result.matches]
    /\ UNCHANGED <<hash_index, vendor_index, registered, outsideDup>>

DupNext ==
    \/ \E t \in Tenants, h \in Hashes, f \in RegisteredFields :
          register_document(t, h, f.vendor_name, f.vendor_id,
                            f.invoice_number, f.amount)
    \/ \E t \in Tenants, h \in Hashes : check_hash_duplicate(h, t)
    \/ \E t \in Tenants, h \in Hashes, f \in CheckedFields :
          check_all(h, t, f.vendor_name, f.vendor_id, f.invoice_number,
                    f.amount)

\* ---------------------------------------------------------------------
\* RiskScorer (ai-services/anomaly-detection/risk_scoring/scorer.py).
\* Scores are fractions num/den, weights hundredths, overall_score
\* thousandths.  The arithmetic is exact; the rounding error of the float
\* sums is a sign, which decides a comparison only where the exact score
\* lies on the value compared with.
\* ---------------------------------------------------------------------

\* FACTOR_WEIGHTS, in hundredths.
FACTOR_WEIGHTS ==
    [amount_deviation |-> 20, new_vendor |-> 15, unusual_timing |-> 10,
     duplicate_suspected |-> 25, missing_po |-> 10, round_amount |-> 5,
     rush_payment |-> 10, threshold_splitting |-> 20, vendor_risk |-> 15,
     unusual_category |-> 5]

\* LEVEL_THRESHOLDS sorted by threshold, in tenths.
LEVEL_THRESHOLDS ==
    << [level |-> "low", threshold |-> 3],
       [level |-> "medium", threshold |-> 5],
       [level |-> "high", threshold |-> 7],
       [level |-> "critical", threshold |-> 10] >>

\* company_config.get("approval_thresholds", [1000, 5000, 10000, 25000])
DefaultThresholds == <<1000, 5000, 10000, 25000>>

\* The arguments assess is called with.  average_invoice_amount 0 and
\* approval_thresholds << >> stand for a missing key.
RiskInputs ==
    [total_amount : {0, 850, 4249, 4250, 4899, 4900, 4999, 5000, 15000,
                     15001, 20000},
     po_number : {"", "PO-1"},
     payment_terms : {"net 30", "urgent"},
     average_invoice_amount : {0, 10000},
     total_invoices : {0, 2, 5},
     approval_thresholds : {<< >>, DefaultThresholds, <<20000>>}]

NoAssessment ==
    [overall_score |-> 0, level |-> "None", indicators |-> << >>,
     requires_review |-> FALSE]

RiskIdle ==
    /\ riskInput = [total_amount |-> 0, po_number |-> "",
                    payment_terms |-> "net 30", average_invoice_amount |-> 0,
                    total_invoices |-> 0, approval_thresholds |-> << >>]
    /\ riskResult = NoAssessment

RiskInit ==
    /\ riskInput \in RiskInputs
    /\ riskResult = NoAssessment

RiskIndicator(factor, num, den) == [factor |-> factor, num |-> num, den |-> den]

Abs(n) == IF n >= 0 THEN n ELSE -n

\* _check_amount_deviation: deviation = |amount - avg| / avg, an indicator
\* with score min(deviation, 1.0) when deviation > 0.5.
check_amount_deviation(in) ==
    LET amount == in.total_amount
        avg_amount == in.average_invoice_amount
        deviation == Abs(amount - avg_amount)
    IN IF avg_amount = 0 \/ amount = 0 THEN << >>
       ELSE IF 2 * deviation > avg_amount
       THEN <<RiskIndicator("amount_deviation",
                            IF deviation < avg_amount THEN deviation
                            ELSE avg_amount,
                            avg_amount)>>
       ELSE << >>

\* _check_new_vendor.
check_new_vendor(in) ==
    IF in.total_invoices < 3
    THEN <<RiskIndicator("new_vendor",
                         IF in.total_invoices = 0 THEN 7 ELSE 4, 10)>>
    ELSE << >>

\* _check_missing_po.
check_missing_po(in) ==
    IF in.po_number = "" /\ in.total_amount > 1000
    THEN <<RiskIndicator("missing_po", 6, 10)>>
    ELSE << >>

\* _check_round_amount.
check_round_amount(in) ==
    IF in.total_amount >= 1000 /\ in.total_amount % 1000 = 0
    THEN <<RiskIndicator("round_amount", 3, 10)>>
    ELSE << >>

\* _check_rush_payment.
check_rush_payment(in) ==
    IF in.payment_terms \in {"immediate", "due upon receipt", "urgent",
                             "asap", "net 0"}
    THEN <<RiskIndicator("rush_payment", 5, 10)>>
    ELSE << >>

\* The test of _check_threshold_splitting:
\* threshold * 0.85 <= amount < threshold * 0.98.
near_threshold(amount, threshold) ==
    85 * threshold <= 100 * amount /\ 100 * amount < 98 * threshold

\* _check_threshold_splitting.
check_threshold_splitting(in) ==
    LET thresholds == IF in.approval_thresholds = << >> THEN DefaultThresholds
                      ELSE in.approval_thresholds
    IN IF \E k \in DOMAIN thresholds :
              near_threshold(in.total_amount, thresholds[k])
       THEN <<RiskIndicator("threshold_splitting", 6, 10)>>
       ELSE << >>

\* The indicators of assess, None dropped.
risk_indicators(in) ==
    check_amount_deviation(in) \o check_new_vendor(in) \o check_missing_po(in)
        \o check_round_amount(in) \o check_rush_payment(in)
        \o check_threshold_splitting(in)

\* sum(self.weights.get(i.factor, 0.1) for i in indicators), in hundredths.
RECURSIVE total_weight(_)
total_weight(indicators) ==
    IF indicators = << >> THEN 0
    ELSE FACTOR_WEIGHTS[Head(indicators).factor]
             + total_weight(Tail(indicators))

\* sum(i.score * weight), every score brought to the denominator scale.
RECURSIVE score_sum(_, _)
score_sum(indicators, scale) ==
    IF indicators = << >> THEN 0
    ELSE LET i == Head(indicators) IN
         i.num * (scale \div i.den) * FACTOR_WEIGHTS[i.factor]
             + score_sum(Tail(indicators), scale)

\* weighted_score as the fraction num/den; 0.0 without indicators.
weighted_score(indicators, scale) ==
    IF indicators = << >> THEN [num |-> 0, den |-> 1]
    ELSE [num |-> score_sum(indicators, scale),
          den |-> scale * total_weight(indicators)]

\* The sign of the float's deviation from the exact weighted score.
FloatErrors == {-1, 0, 1}

\* weighted_score <= tenths / 10 on the float.
at_most(score, tenths, error) ==
    \/ 10 * score.num < tenths * score.den
    \/ 10 * score.num = tenths * score.den /\ error <= 0

\* The level loop of assess: the first level, by rising threshold, with
\* weighted_score <= threshold; LOW when there is none.
RECURSIVE level_of(_, _, _)
level_of(score, levels, error) ==
    IF levels = << >> THEN "low"
    ELSE IF at_most(score, Head(levels).threshold, error)
         THEN Head(levels).level
         ELSE level_of(score, Tail(levels), error)

\* round(weighted_score, 3) in thousandths: the nearest thousandth; on a
\* decimal tie the binary value of the float decides, so either neighbour.
rounded(score) ==
    LET r0 == score.num % score.den
        r1 == (10 * r0) % score.den
        r2 == (10 * r1) % score.den
        r3 == (10 * r2) % score.den
        down == 1000 * (score.num \div score.den)
                    + 100 * ((10 * r0) \div score.den)
                    + 10 * ((10 * r1) \div score.den)
                    + (10 * r2) \div score.den
    IN IF 2 * r3 < score.den THEN {down}
       ELSE IF 2 * r3 > score.den THEN {down + 1}
       ELSE {down, down + 1}

outsideRisk == <<smVars, busVars, pipeVars, slaVars, rulesVars, dupVars,
    auditVars, poVars>>

\* RiskScorer.assess with the default weights and review_threshold 0.5.
assess ==
    /\ riskResult = NoAssessment
    /\ LET indicators == risk_indicators(riskInput)
           scale == IF riskInput.average_invoice_amount > 0
                    THEN 10 * riskInput.average_invoice_amount ELSE 10
           score == weighted_score(indicators, scale)
       IN \E overall_score \in rounded(score), error \in FloatErrors :
              riskResult' =
                  [overall_score |-> overall_score,
                   level |-> level_of(score, LEVEL_THRESHOLDS, error),
                   indicators |-> indicators,
                   requires_review |->
                       \/ 2 * score.num > score.den
                       \/ 2 * score.num = score.den /\ error >= 0]
    /\ UNCHANGED <<riskInput, outsideRisk>>

RiskNext == assess

\* ---------------------------------------------------------------------
\* AuditLogger (audit-service/event_logger/logger.py).
\* ---------------------------------------------------------------------

MaxAuditEvents == 2
MaxAuditClock == 2

\* query's default limit.
DefaultLimit == 100

\* The arguments log is called with. A details or metadata map is the set of
\* its (key, value) pairs; None and the empty map are both stored as {}.
AuditEventType == {"invoice.created"}
Actors == {"system"}
AuditTenants == {"t1", "t2"}
ResourceTypes == {"invoice"}
ResourceIds == {"inv-1"}
AuditActions == {"create"}
DetailMaps == {{}, {<<"amount", "100">>}}
MetadataMaps == {{}, {<<"ip", "10.0.0.1">>}}

\* datetime.utcnow(), in ticks of the clock.
AuditTimes == 0..MaxAuditClock

\* An argument left at None; the empty string is as falsy to query.
NoFilter == ""
NoDate == 0 - 1

\* AuditEvent.compute_checksum: the SHA-256 of the JSON of the nine fields
\* of `data`, kept as the data itself (no two inputs of the model collide).
compute_checksum(event) ==
    [id |-> event.id, event_type |-> event.event_type,
     timestamp |-> event.timestamp, actor |-> event.actor,
     tenant_id |-> event.tenant_id, resource_type |-> event.resource_type,
     resource_id |-> event.resource_id, action |-> event.action,
     details |-> event.details]

\* AuditEvent(...) as log builds it, checksum still None.
AuditEvent(id, event_type, timestamp, actor, tenant_id, resource_type, resource_id, action, details, metadata) ==
    [id |-> id, event_type |-> event_type, timestamp |-> timestamp,
     actor |-> actor, tenant_id |-> tenant_id,
     resource_type |-> resource_type, resource_id |-> resource_id,
     action |-> action, details |-> details, metadata |-> metadata]

\* event.checksum = event.compute_checksum()
with_checksum(event) ==
    [f \in DOMAIN event \cup {"checksum"} |->
        IF f = "checksum" THEN compute_checksum(event) ELSE event[f]]

\* AuditLogger.verify_integrity
verify_integrity(event) == compute_checksum(event) = event.checksum

NoEvent ==
    with_checksum(AuditEvent(0, "", 0, "", "", "", "", "", {}, {}))

NoAuditCall ==
    [op |-> "none", event |-> NoEvent, results |-> << >>, verified |-> FALSE]

\* AuditLogger(): no events.
AuditIdle ==
    /\ events = << >>
    /\ event_counter = 0
    /\ auditCall = NoAuditCall

\* The latest timestamp given out so far.
latest_timestamp ==
    IF events = << >> THEN 0
    ELSE CHOOSE t \in AuditTimes :
            /\ \E k \in DOMAIN events : events[k].timestamp = t
            /\ \A k \in DOMAIN events : events[k].timestamp <= t

outsideAudit == <<smVars, busVars, pipeVars, slaVars, rulesVars, dupVars,
    riskVars, poVars>>

\* self._events.append(event)
appended_event(evs, event) == Append(evs, event)

\* AuditLogger.log at time `now`; the id is AE-<date>-<counter>, kept as the
\* counter.
log(event_type, actor, tenant_id, resource_type, resource_id, action, details, metadata, now) ==
    LET event == with_checksum(
                    AuditEvent(event_counter + 1, event_type, now, actor,
                               tenant_id, resource_type, resource_id, action,
                               details, metadata))
    IN /\ Len(events) < MaxAuditEvents
       /\ now >= latest_timestamp
       /\ event_counter' = event_counter + 1
       /\ events' = appended_event(events, event)
       /\ auditCall' = [op |-> "log", event |-> event, results |-> << >>,
                        verified |-> FALSE]
       /\ UNCHANGED outsideAudit

\* list.sort(key=timestamp, reverse=True): stable, the latest first.
RECURSIVE sorted_latest_first(_)
sorted_latest_first(evs) ==
    IF evs = << >> THEN << >>
    ELSE LET rest == sorted_latest_first(SubSeq(evs, 1, Len(evs) - 1))
             x == evs[Len(evs)]
             k == Cardinality({j \in DOMAIN rest :
                                  rest[j].timestamp >= x.timestamp})
         IN SubSeq(rest, 1, k) \o <<x>> \o SubSeq(rest, k + 1, Len(rest))

\* The filters of query that are applied: each builds a new list.
applied_filters(tenant_id, event_type, actor, resource_type, resource_id, from_date, to_date) ==
    {f \in {"tenant_id", "event_type", "actor", "resource_type",
            "resource_id"} :
        [tenant_id |-> tenant_id, event_type |-> event_type,
         actor |-> actor, resource_type |-> resource_type,
         resource_id |-> resource_id][f] # NoFilter}
    \cup (IF from_date # NoDate THEN {"from_date"} ELSE {})
    \cup (IF to_date # NoDate THEN {"to_date"} ELSE {})

\* The events the list comprehensions of query keep.
filtered(evs, tenant_id, event_type, actor, resource_type, resource_id, from_date, to_date) ==
    SelectSeq(evs, LAMBDA e :
        /\ tenant_id # NoFilter => e.tenant_id = tenant_id
        /\ event_type # NoFilter => e.event_type = event_type
        /\ actor # NoFilter => e.actor = actor
        /\ resource_type # NoFilter => e.resource_type = resource_type
        /\ resource_id # NoFilter => e.resource_id = resource_id
        /\ from_date # NoDate => e.timestamp >= from_date
        /\ to_date # NoDate => e.timestamp <= to_date)

\* results[:limit]
first_n(seq, n) == SubSeq(seq, 1, IF n < Len(seq) THEN n ELSE Len(seq))

\* AuditLogger.query. `results` starts as self._events itself; with no filter
\* applied it still is that list when results.sort sorts it in place.
query(tenant_id, event_type, actor, resource_type, resource_id, from_date, to_date, limit) ==
    LET applied == applied_filters(tenant_id, event_type, actor,
                                   resource_type, resource_id, from_date,
                                   to_date)
        results == sorted_latest_first(
                      filtered(events, tenant_id, event_type, actor,
                               resource_type, resource_id, from_date,
                               to_date))
    IN /\ events' = IF applied = {} THEN results ELSE events
       /\ auditCall' = [op |-> "query", event |-> NoEvent,
                        results |-> first_n(results, limit),
                        verified |-> FALSE]
       /\ UNCHANGED <<event_counter, outsideAudit>>

\* The values a field of an event object may be overwritten with.
FieldValues(f) ==
    CASE f = "id" -> 1..MaxAuditEvents
      [] f = "event_type" -> AuditEventType \cup {"workflow.approved"}
      [] f = "timestamp" -> AuditTimes
      [] f = "actor" -> Actors \cup {"u-1"}
      [] f = "tenant_id" -> AuditTenants
      [] f = "resource_type" -> ResourceTypes \cup {"document"}
      [] f = "resource_id" -> ResourceIds \cup {"inv-2"}
      [] f = "action" -> AuditActions \cup {"delete"}
      [] f = "details" -> DetailMaps
      [] f = "metadata" -> MetadataMaps

\* The fields of an AuditEvent other than checksum.
EventFields ==
    {"id", "event_type", "timestamp", "actor", "tenant_id", "resource_type",
     "resource_id", "action", "details", "metadata"}

\* A logged event, or a logged event with one field overwritten.
PresentedEvents ==
    {events[k] : k \in DOMAIN events}
    \cup UNION {UNION {{[events[k] EXCEPT ![f] = v] : v \in FieldValues(f)} :
                         f \in EventFields} :
                  k \in DOMAIN events}

\* AuditLogger.verify_integrity called on an event object.
verify_integrity_call(event) ==
    /\ auditCall' = [op |-> "verify_integrity", event |-> event,
                     results |-> << >>, verified |-> verify_integrity(event)]
    /\ UNCHANGED <<events, event_counter, outsideAudit>>

AuditNext ==
    \/ \E et \in AuditEventType, a \in Actors, t \in AuditTenants :
       \E rt \in ResourceTypes, ri \in ResourceIds, ac \in AuditActions :
       \E d \in DetailMaps, m \in MetadataMaps, now \in AuditTimes :
          log(et, a, t, rt, ri, ac, d, m, now)
    \/ \E t \in AuditTenants \cup {NoFilter} :
       \E et \in AuditEventType \cup {NoFilter} :
       \E ri \in ResourceIds \cup {NoFilter} :
       \E fd \in {NoDate, 1}, limit \in {1, DefaultLimit} :
          query(t, et, NoFilter, NoFilter, ri, fd, NoDate, limit)
    \/ \E e \in PresentedEvents : verify_integrity_call(e)

\* ---------------------------------------------------------------------
\* POMatchingEngine (validation-service/po_matching/matcher.py), with the
\* default tolerances.
\* ---------------------------------------------------------------------

MaxInvoiceLines == 1

POLineItem(line_number, description, quantity, unit_price) ==
    [line_number |-> line_number, description |-> description,
     quantity |-> quantity, unit_price |-> unit_price]

\* _po_database after _init_demo_pos, in insertion order.
po_database ==
    <<[po_number |-> "PO-2024-001", vendor_name |-> "Acme Corporation",
       currency |-> "USD", tax_amount |-> 1680, total_amount |-> 12180,
       line_items |->
          <<POLineItem(1, "Software License - Enterprise", 1, 8000),
            POLineItem(2, "Implementation Services", 10, 150),
            POLineItem(3, "Training Hours", 5, 200)>>],
      [po_number |-> "PO-2024-002", vendor_name |-> "CloudServices Ltd",
       currency |-> "USD", tax_amount |-> 0, total_amount |-> 12000,
       line_items |-> <<POLineItem(1, "Cloud Hosting Monthly", 1, 12000)>>]>>

\* No PurchaseOrder.
NoPO ==
    [po_number |-> "", vendor_name |-> "", currency |-> "", tax_amount |-> 0,
     total_amount |-> 0, line_items |-> << >>]

\* difflib.SequenceMatcher(None, a.lower(), b.lower()).ratio() in thousandths,
\* rounded down, for the strings in use.
SimilarityTable ==
    {<<"CloudServices Ltd", "Acme Corporation", 242>>,
     <<"CloudServices Ltd", "CloudServices Ltd", 1000>>,
     <<"CloudService Inc", "Acme Corporation", 312>>,
     <<"CloudService Inc", "CloudServices Ltd", 787>>,
     <<"Acme Corporation", "Acme Corporation", 1000>>,
     <<"Acme Corporation", "CloudServices Ltd", 242>>,
     <<"Cloud Hosting Monthly", "Software License - Enterprise", 200>>,
     <<"Cloud Hosting Monthly", "Implementation Services", 227>>,
     <<"Cloud Hosting Monthly", "Training Hours", 342>>,
     <<"Cloud Hosting Monthly", "Cloud Hosting Monthly", 1000>>,
     <<"Training Hour", "Software License - Enterprise", 238>>,
     <<"Training Hour", "Implementation Services", 166>>,
     <<"Training Hour", "Training Hours", 962>>,
     <<"Training Hour", "Cloud Hosting Monthly", 352>>,
     <<"Consulting", "Software License - Enterprise", 256>>,
     <<"Consulting", "Implementation Services", 242>>,
     <<"Consulting", "Training Hours", 333>>,
     <<"Consulting", "Cloud Hosting Monthly", 451>>,
     <<"PO-2024-001", "PO-2024-001", 1000>>,
     <<"PO-2024-001", "PO-2024-002", 909>>,
     <<"PO-2024-002", "PO-2024-001", 909>>,
     <<"PO-2024-002", "PO-2024-002", 1000>>,
     <<"PO-2024002", "PO-2024-001", 857>>,
     <<"PO-2024002", "PO-2024-002", 952>>,
     <<"PO-2024-003", "PO-2024-001", 909>>,
     <<"PO-2024-003", "PO-2024-002", 909>>,
     <<"PO-9999", "PO-2024-001", 333>>,
     <<"PO-9999", "PO-2024-002", 333>>}

similarity(a, b) ==
    (CHOOSE t \in SimilarityTable : t[1] = a /\ t[2] = b)[3]

\* The PO references in use; the empty string stands for None as well.
PoReferences ==
    {"", "PO-2024-001", "PO-2024-002", "po 2024 002", "PO-2024-003", "PO-9999"}

\* _normalize_po_number: upper case, the prefix rewritten to "PO-", every
\* character outside A-Z, 0-9 and "-" removed.
normalize_po_number(po_ref) ==
    IF po_ref = "po 2024 002" THEN "PO-2024002" ELSE po_ref

\* The index in po_database of the PO with this number, 0 for none.
index_of_po(po_number) ==
    IF \E k \in DOMAIN po_database : po_database[k].po_number = po_number
    THEN CHOOSE k \in DOMAIN po_database :
            po_database[k].po_number = po_number
    ELSE 0

\* The fuzzy loop of find_po: the first PO of the highest score above 0.8.
fuzzy_match(normalized) ==
    LET score(k) == similarity(normalized,
                               normalize_po_number(po_database[k].po_number))
        best == {k \in DOMAIN po_database :
                    /\ score(k) > 800
                    /\ \A j \in DOMAIN po_database :
                          \/ score(j) < score(k)
                          \/ score(j) = score(k) /\ j >= k}
    IN IF best = {} THEN 0 ELSE CHOOSE k \in best : TRUE

\* find_po: the index of the PO found, 0 for None.
find_po(po_reference) ==
    IF po_reference = "" THEN 0
    ELSE IF index_of_po(normalize_po_number(po_reference)) # 0
         THEN index_of_po(normalize_po_number(po_reference))
    ELSE IF index_of_po(po_reference) # 0 THEN index_of_po(po_reference)
    ELSE fuzzy_match(normalize_po_number(po_reference))

Variance(type, field, severity) ==
    [type |-> type, field |-> field, severity |-> severity]

\* _compare_headers: vendor, total amount, tax, currency, in this order.
compare_headers(invoice, po) ==
    LET sim == similarity(invoice.vendor_name, po.vendor_name)
        diff == invoice.total_amount - po.total_amount
    IN (IF /\ invoice.vendor_name # "" /\ po.vendor_name # ""
           /\ sim < 900
        THEN <<Variance("vendor", "vendor_name",
                        IF sim > 700 THEN "warning" ELSE "critical")>>
        ELSE << >>)
       \o (IF /\ invoice.total_amount # 0 /\ po.total_amount # 0
              /\ 100 * Abs(diff) > 5 * po.total_amount
           THEN <<Variance("amount", "total_amount",
                           IF 10 * Abs(diff) > po.total_amount
                           THEN "critical" ELSE "warning")>>
           ELSE << >>)
       \o (IF Abs(invoice.tax_amount - po.tax_amount) > 1
           THEN <<Variance("tax", "tax_amount", "info")>>
           ELSE << >>)
       \o (IF invoice.currency # po.currency
           THEN <<Variance("amount", "currency", "critical")>>
           ELSE << >>)

\* _compare_line_item: quantity (tolerance 10%), unit price (tolerance 2%).
compare_line_item(inv_line, po_line) ==
    LET qdiff == inv_line.quantity - po_line.quantity
        pdiff == inv_line.unit_price - po_line.unit_price
    IN (IF /\ inv_line.quantity # 0 /\ po_line.quantity # 0
           /\ 10 * Abs(qdiff) > po_line.quantity
        THEN <<Variance("quantity", "quantity", "warning")>>
        ELSE << >>)
       \o (IF /\ inv_line.unit_price # 0 /\ po_line.unit_price # 0
              /\ 100 * Abs(pdiff) > 2 * po_line.unit_price
           THEN <<Variance("price", "unit_price",
                           IF 10 * Abs(pdiff) < po_line.unit_price
                           THEN "warning" ELSE "critical")>>
           ELSE << >>)

\* The inner loop of _match_line_items: the first PO line, not yet matched,
\* of the highest description similarity, at least 0.7; 0 for none.
best_po_idx(inv_line, po_lines, matched_po_indices) ==
    LET free == DOMAIN po_lines \ matched_po_indices
        score(k) == similarity(inv_line.description, po_lines[k].description)
        best == {k \in free :
                    /\ score(k) >= 700 /\ score(k) > 0
                    /\ \A j \in free :
                          \/ score(j) < score(k)
                          \/ score(j) = score(k) /\ j >= k}
    IN IF best = {} THEN 0 ELSE CHOOSE k \in best : TRUE

\* status of a LineItemMatch
line_status(variances) ==
    IF variances = << >> THEN "matched"
    ELSE IF \A k \in DOMAIN variances : variances[k].severity = "info"
         THEN "partial"
    ELSE "mismatch"

\* _match_line_items over the invoice lines from inv_idx on.
RECURSIVE match_line_items(_, _, _, _, _, _)
match_line_items(invoice_lines, po_lines, inv_idx, line_matches, matched_po_indices, unmatched_inv) ==
    IF inv_idx > Len(invoice_lines)
    THEN [matches |-> line_matches, unmatched_inv |-> unmatched_inv,
          unmatched_po |->
             SelectSeq([k \in DOMAIN po_lines |-> po_lines[k].line_number],
                       LAMBDA n : \E k \in DOMAIN po_lines \ matched_po_indices :
                                     po_lines[k].line_number = n)]
    ELSE LET inv_line == invoice_lines[inv_idx]
             b == best_po_idx(inv_line, po_lines, matched_po_indices)
             variances == compare_line_item(inv_line, po_lines[b])
         IN IF b # 0
            THEN match_line_items(
                    invoice_lines, po_lines, inv_idx + 1,
                    Append(line_matches,
                           [invoice_line |-> inv_idx,
                            po_line |-> po_lines[b].line_number,
                            variances |-> variances,
                            status |-> line_status(variances)]),
                    matched_po_indices \cup {b}, unmatched_inv)
            ELSE match_line_items(invoice_lines, po_lines, inv_idx + 1,
                                  line_matches, matched_po_indices,
                                  Append(unmatched_inv, inv_idx))

\* MatchResult, as far as the status is decided from it.
MatchResult(match_status_value, header_variances, line_matches, unmatched_invoice_lines, unmatched_po_lines) ==
    [status |-> match_status_value, header_variances |-> header_variances,
     line_matches |-> line_matches,
     unmatched_invoice_lines |-> unmatched_invoice_lines,
     unmatched_po_lines |-> unmatched_po_lines]

NoMatchResult == MatchResult("None", << >>, << >>, << >>, << >>)

\* The status match_invoice decides on.
match_status(header_variances, lines) ==
    IF \E k \in DOMAIN header_variances :
          header_variances[k].severity = "critical"
    THEN "mismatch"
    ELSE IF \/ lines.unmatched_inv # << >>
            \/ lines.unmatched_po # << >>
            \/ \E k \in DOMAIN lines.matches :
                  lines.matches[k].status # "matched"
         THEN "partial"
    ELSE "matched"

\* The PO reference match_invoice works with.
reference_of(invoice, po_reference) ==
    IF po_reference # "" THEN po_reference ELSE invoice.po_number

\* POMatchingEngine.match_invoice
matched_invoice(invoice, po_reference) ==
    LET reference == reference_of(invoice, po_reference)
        found == find_po(reference)
        po == po_database[found]
        header_variances == compare_headers(invoice, po)
        lines == match_line_items(invoice.line_items, po.line_items, 1,
                                  << >>, {}, << >>)
    IN IF reference = ""
       THEN MatchResult("no_po", << >>, << >>, << >>, << >>)
       ELSE IF found = 0
            THEN MatchResult("po_not_found", << >>, << >>, << >>, << >>)
       ELSE MatchResult(match_status(header_variances, lines),
                        header_variances, lines.matches, lines.unmatched_inv,
                        lines.unmatched_po)

\* The invoices match_invoice is given.
InvoiceLines ==
    [description : {"Cloud Hosting Monthly", "Training Hour", "Consulting"},
     quantity : {1, 5, 6},
     unit_price : {200, 12000, 12600, 13500}]

InvoiceLineLists ==
    UNION {[1..n -> InvoiceLines] : n \in 0..MaxInvoiceLines}

PoInvoices ==
    [po_number : PoReferences \ {"PO-2024-001"},
     vendor_name : {"", "CloudServices Ltd", "CloudService Inc",
                    "Acme Corporation"},
     total_amount : {0, 12000, 12900, 14000},
     tax_amount : {0, 5},
     currency : {"USD", "EUR"},
     line_items : InvoiceLineLists]

PoInputs == [invoice : PoInvoices, po_reference : {"", "PO-2024-001"}]

PoIdle ==
    /\ poInput = [invoice |-> [po_number |-> "", vendor_name |-> "",
                               total_amount |-> 0, tax_amount |-> 0,
                               currency |-> "USD", line_items |-> << >>],
                  po_reference |-> ""]
    /\ poResult = NoMatchResult

PoInit ==
    /\ poInput \in PoInputs
    /\ poResult = NoMatchResult

outsidePo == <<smVars, busVars, pipeVars, slaVars, rulesVars, dupVars,
    riskVars, auditVars>>

match_invoice ==
    /\ poResult = NoMatchResult
    /\ poResult' = matched_invoice(poInput.invoice, poInput.po_reference)
    /\ UNCHANGED <<poInput, outsidePo>>

PoNext == match_invoice

\* The stand-alone components untouched.
LibIdle == SlaIdle /\ RulesIdle /\ DupIdle /\ RiskIdle /\ AuditIdle /\ PoIdle

\* The gateway after startup, nothing uploaded yet.
Init == SMInit /\ BusStarted /\ PipeIdle /\ LibIdle

Spec == Init /\ [][PipeNext]_vars

SpecApproval == Init /\ [][ApprovalNext]_vars

\* A queue just built, the rest idle.
InitBus == SMInit /\ BusInit /\ PipeIdle /\ LibIdle

SpecBus == InitBus /\ [][BusNext]_vars

\* A StateMachine just built, the rest idle.
InitSM == SMInit /\ BusIdle /\ PipeIdle /\ LibIdle

SpecSM == InitSM /\ [][SMNext]_vars

\* A state machine following one invoice.
InitFlow == SMInit /\ BusIdle /\ PipeIdle /\ LibIdle

SpecFlow == InitFlow /\ [][FlowNext]_vars

\* An SLAManager just built, the rest idle.
InitSla ==
    SMInit /\ BusIdle /\ PipeIdle /\ SlaInit /\ RulesIdle /\ DupIdle /\ RiskIdle
    /\ AuditIdle /\ PoIdle

SpecSla == InitSla /\ [][SlaNext]_vars

\* A client of the approval rules engine.
InitRules == SMInit /\ BusIdle /\ PipeIdle /\ LibIdle

SpecRules == InitRules /\ [][RulesNext]_vars

\* A client of the duplicate detector.
InitDup == SMInit /\ BusIdle /\ PipeIdle /\ LibIdle

SpecDup == InitDup /\ [][DupNext]_vars

\* One call of RiskScorer.assess on each input.
InitRisk ==
    SMInit /\ BusIdle /\ PipeIdle /\ SlaIdle /\ RulesIdle /\ DupIdle /\ RiskInit
    /\ AuditIdle /\ PoIdle

SpecRisk == InitRisk /\ [][RiskNext]_vars

\* An audit logger of its own.
InitAudit == SMInit /\ BusIdle /\ PipeIdle /\ LibIdle

SpecAudit == InitAudit /\ [][AuditNext]_vars

\* A PO matching engine given one invoice.
InitPo ==
    SMInit /\ BusIdle /\ PipeIdle /\ SlaIdle /\ RulesIdle /\ DupIdle /\ RiskIdle
    /\ AuditIdle /\ PoInit

SpecPo == InitPo /\ [][PoNext]_vars

(***************************************************************************)
(* Claims about the workflow state machine (checked under SpecSM)          *)
(***************************************************************************)

\* The transition table of the specification, section 4.6, row by row.
TransitionTable ==
    {<<"uploaded", "start_processing", "processing">>,
     <<"uploaded", "report_error", "error">>,
     <<"processing", "report_error", "error">>,
     <<"ocr_complete", "report_error", "error">>,
     <<"extracted", "report_error", "error">>,
     <<"payment_pending", "report_error", "error">>,
     <<"processing", "complete_ocr", "ocr_complete">>,
     <<"ocr_complete", "complete_extraction", "extracted">>,
     <<"extracted", "validate", "validated">>,
     <<"validated", "request_review", "review_pending">>,
     <<"validated", "approve", "approved">>,
     <<"review_pending", "approve", "approved">>,
     <<"review_pending", "reject", "rejected">>,
     <<"approved", "request_payment", "payment_pending">>,
     <<"payment_pending", "confirm_payment", "paid">>,
     <<"paid", "archive", "archived">>,
     <<"rejected", "archive", "archived">>,
     <<"rejected", "retry", "uploaded">>,
     <<"error", "retry", "uploaded">>,
     <<"error", "archive", "archived">>}

\* (current state of invoice_id, action) is a row of the section 4.6 table.
IsTableRow(wfs, invoice_id, action) ==
    /\ invoice_id \in DOMAIN wfs
    /\ \E r \in TransitionTable :
          r[1] = wfs[invoice_id].current_state /\ r[2] = action

\* C6: a transition call whose (current state, action) is no row of the
\* table, or whose invoice id has no workflow, fails with the invalid-
\* transition error (ValueError) and leaves every workflow's current_state,
\* history and updated_at unchanged, and runs no state-entry hook.
\* Stated per step: a transition call ends ok or with ValueError; it ends ok
\* only for an (invoice id, action) that is a row for a known workflow; and a
\* call that ends with ValueError changes no workflow and runs no hook.
C6_InvalidTransitionFails ==
    [][smCall'.op = "transition"
       => /\ smCall'.result \in {"ok", "ValueError"}
          /\ smCall'.result = "ValueError"
               => (workflows' = workflows /\ smCall'.ran = <<>>)
          /\ smCall'.result = "ok"
               => \A i \in SmInvoices, a \in TransitionAction :
                     transition(i, a) => IsTableRow(workflows, i, a)]_vars

\* C6 witness: a transition was refused while one workflow has a history, the
\* other invoice id has no workflow, and a hook is registered.
C6_Witness ==
    /\ smCall.op = "transition"
    /\ smCall.result = "ValueError"
    /\ \E i \in DOMAIN workflows : Len(workflows[i].history) >= 1
    /\ SmInvoices \ DOMAIN workflows # {}
    /\ DOMAIN hooks # {}

\* The history of a workflow: every entry is a table row and each entry
\* starts where the one before it ended.
HistoryWellFormed(w) ==
    \A k \in 1..Len(w.history) :
        /\ <<w.history[k].from_state, w.history[k].action,
              w.history[k].to_state>> \in TransitionTable
        /\ k > 1 => w.history[k].from_state = w.history[k - 1].to_state

\* C7: every history entry (from_state, action, to_state) of every workflow
\* is a row of the section 4.6 table, each entry's from_state is the to_state
\* of the entry before it, and each successful transition appends exactly
\* one entry to the history of its workflow.
C7_HistoryFollowsTable ==
    /\ [](\A i \in DOMAIN workflows : HistoryWellFormed(workflows[i]))
    /\ [][(smCall'.op = "transition" /\ smCall'.result = "ok")
          => \A i \in SmInvoices, a \in TransitionAction :
            transition(i, a)
              => /\ i \in DOMAIN workflows
                 /\ Len(workflows'[i].history)
                       = Len(workflows[i].history) + 1
                 /\ SubSeq(workflows'[i].history, 1,
                           Len(workflows[i].history)) = workflows[i].history
                 /\ workflows'[i].history[Len(workflows'[i].history)].action
                       = a
                 /\ \A j \in DOMAIN workflows \ {i} :
                       workflows'[j] = workflows[j]]_vars

\* C7 witness: a workflow whose history holds two chained transitions.
C7_Witness ==
    \E i \in DOMAIN workflows :
        /\ Len(workflows[i].history) >= 2
        /\ smCall.op = "transition" /\ smCall.result = "ok"

\* C8: for every workflow with a non-empty history, the to_state of the last
\* history entry equals current_state, after failed transitions and raising
\* hooks too.
C8_LastToStateIsCurrent ==
    \A i \in DOMAIN workflows :
        LET w == workflows[i]
        IN Len(w.history) > 0
             => w.history[Len(w.history)].to_state = w.current_state

\* C8 witness: a transition whose raising hook ran, on a workflow with a
\* history, while another call has failed before on a workflow with history.
C8_Witness ==
    /\ smCall.op = "transition" /\ smCall.result = "ok"
    /\ \E k \in 1..Len(smCall.ran) : smCall.ran[k] = "h_raise"
    /\ \E i \in DOMAIN workflows :
          /\ workflows[i].current_state \in HookStates
          /\ Len(workflows[i].history) >= 1

(***************************************************************************)
(* Claims about one invoice's life (checked under SpecFlow)                *)
(***************************************************************************)

\* The hooks registered for a state, in registration order.
RegisteredHooks(state) == IF state \in DOMAIN hooks THEN hooks[state] ELSE <<>>

\* C26: a transition call that passes the two checks takes effect whatever
\* the hooks of the entered state do: the call returns without an error, the
\* history grows by the one entry (from, action, to), current_state is the
\* target, and every hook registered for the target ran, in registration
\* order, the hooks behind a raising one included.
C26_RaisingHookKeepsTransition ==
    [][\A i \in DOMAIN workflows :
       \A a \in valid_actions(workflows[i].current_state) :
          (~transition_rejected(workflows, i, a) /\ transition(i, a))
             => LET from == workflows[i].current_state
                    target == (CHOOSE t \in TRANSITIONS :
                                  t[1] = from /\ t[2] = a)[3]
                    h == workflows[i].history
                    h2 == workflows'[i].history
                IN /\ smCall'.result = "ok"
                   /\ workflows'[i].current_state = target
                   /\ Len(h2) = Len(h) + 1
                   /\ SubSeq(h2, 1, Len(h)) = h
                   /\ h2[Len(h2)] = [from_state |-> from, to_state |-> target,
                                     action |-> a]
                   /\ smCall'.ran = RegisteredHooks(target)]_vars

\* C26 witness: a transition into a state whose first hook raises and whose
\* second hook ran after it.
C26_Witness ==
    /\ smCall.op = "transition" /\ smCall.result = "ok"
    /\ Len(smCall.ran) >= 2
    /\ smCall.ran[1] = "h_raise" /\ smCall.ran[2] = "h_ok"
    /\ \E i \in DOMAIN workflows :
          /\ workflows[i].current_state \in FlowHookStates
          /\ Len(workflows[i].history) >= 1
          /\ workflows[i].history[Len(workflows[i].history)].to_state
                = workflows[i].current_state

\* The histories that begin in UPLOADED.
HistoriesFromUploaded ==
    {workflows[i].history : i \in {j \in DOMAIN workflows :
        /\ workflows[j].history # <<>>
        /\ workflows[j].history[1].from_state = "uploaded"}}

\* Entry r of h is a retry back to UPLOADED and the four entries behind it
\* are start_processing, complete_ocr, complete_extraction and validate.
RetriedThroughValidation(h, r) ==
    /\ h[r].action = "retry" /\ h[r].to_state = "uploaded"
    /\ r + 4 <= Len(h)
    /\ h[r + 1].action = "start_processing"
    /\ h[r + 2].action = "complete_ocr"
    /\ h[r + 3].action = "complete_extraction"
    /\ h[r + 4].action = "validate"

\* C30: in every history that begins in UPLOADED, an entry into PAID comes
\* right after an entry into PAYMENT_PENDING that comes right after an entry
\* into APPROVED, neither of the two being a retry; between an entry into
\* REJECTED or ERROR and a later entry into APPROVED or PAID lies a retry back
\* to UPLOADED followed by start_processing, complete_ocr,
\* complete_extraction and validate; and no entry leaves ARCHIVED.
C30_PaidOnlyThroughApproval ==
    \A h \in HistoriesFromUploaded :
       /\ \A k \in DOMAIN h :
             h[k].to_state = "paid"
                => /\ k >= 3
                   /\ h[k - 1].to_state = "payment_pending"
                   /\ h[k - 2].to_state = "approved"
                   /\ h[k].action # "retry" /\ h[k - 1].action # "retry"
       /\ \A j \in DOMAIN h : \A k \in DOMAIN h :
             (/\ j < k
              /\ h[j].to_state \in {"rejected", "error"}
              /\ h[k].to_state \in {"approved", "paid"})
                => \E r \in (j + 1)..(k - 1) :
                      /\ RetriedThroughValidation(h, r)
                      /\ r + 4 < k
       /\ \A k \in DOMAIN h : h[k].from_state # "archived"

\* C30 witness: an invoice that was rejected, retried, approved and paid.
C30_Witness ==
    \E h \in HistoriesFromUploaded :
       /\ \E j \in DOMAIN h : h[j].to_state = "rejected"
       /\ h[Len(h)].to_state = "paid"

(***************************************************************************)
(* Claims about the message bus                                            *)
(***************************************************************************)

\* A message is waiting for redelivery with a raised retry count.
AwaitsRedelivery(id) ==
    \E e \in BusEvents : \E k \in DOMAIN channel[e] :
        channel[e][k].id = id /\ channel[e][k].retry_count > 0

\* C4: on either queue, a message whose handler raised while retry_count <
\* max_retries is redelivered with retry_count incremented; it is in the
\* dead-letter list only with retry_count >= max_retries; it is never
\* dropped.
C4_RetryThenDeadLetter ==
    /\ \A k \in DOMAIN dlq :
          dlq[k].message.retry_count >= dlq[k].message.max_retries
    /\ \A k \in DOMAIN invoked :
          invoked[k].outcome = "raised"
            => \/ AwaitsRedelivery(invoked[k].msg)
               \/ \E d \in DOMAIN dlq : dlq[d].message.id = invoked[k].msg

\* The invocations of handler h for message id.
InvocationsOf(h, id) ==
    {k \in DOMAIN invoked : invoked[k].handler = h /\ invoked[k].msg = id}

\* C23: subscribing a handler again to an event type changes nothing: the
\* handler is listed once, and a published message invokes it once.
C23_SubscribeIsIdempotent ==
    /\ \A e \in BusEvents : \A j, k \in DOMAIN handlers[e] :
          handlers[e][j] = handlers[e][k] => j = k
    /\ \A h \in BusHandlers : \A m \in DOMAIN messages :
          Cardinality(InvocationsOf(h, messages[m].id)) <= 1

FirstInvocation(h, id) ==
    CHOOSE k \in InvocationsOf(h, id) : \A j \in InvocationsOf(h, id) : k <= j

\* C24: a handler subscribed to an event type is invoked for the messages of
\* that type in the order they were published.
C24_DeliveryInPublishOrder ==
    \A a, b \in DOMAIN messages : \A h \in BusHandlers :
        (/\ a < b
         /\ messages[a].event_type = messages[b].event_type
         /\ InvocationsOf(h, messages[a].id) # {}
         /\ InvocationsOf(h, messages[b].id) # {})
        => FirstInvocation(h, messages[a].id)
               < FirstInvocation(h, messages[b].id)

\* C25: once disconnect has returned no handler invocation starts, whatever
\* is published.
C25_NoDeliveryAfterDisconnect ==
    [][closed => invoked' = invoked]_vars

\* The handler invocations a step starts.
StartedCalls == SubSeq(invoked', Len(invoked) + 1, Len(invoked'))

\* The handlers a step invokes for message id, in order.
InvokedFor(id) ==
    LET calls == SelectSeq(StartedCalls, LAMBDA c : c.msg = id)
    IN [k \in DOMAIN calls |-> calls[k].handler]

LoggedMessage(id) ==
    messages'[CHOOSE k \in DOMAIN messages' : messages'[k].id = id]

TablePairs == {<<r[1], r[3]>> : r \in TransitionTable}

\* C1: every change of an invoice's stored status, by whichever operation,
\* is a (From, To) pair of the section 4.6 table, and an invoice's first
\* status is UPLOADED.
C1_StatusWritesFollowTable ==
    [][\A i \in PipeInvoices :
          status'[i] # status[i]
            => IF status[i] = "none" THEN status'[i] = "uploaded"
               ELSE <<status[i], status'[i]>> \in TablePairs]_vars

\* C2: a second delivery of an invoice.processed message that has been
\* handled writes no status, creates no approval task and publishes nothing.
C2_SecondDeliveryIsNoOp ==
    [][redelivered' # redelivered
         => /\ status' = status
            /\ tasks' = tasks
            /\ messages' = messages]_vars

PendingTasks(invoice_id) ==
    {k \in DOMAIN tasks : /\ tasks[k].invoice_id = invoice_id
                          /\ tasks[k].status = "pending"}

\* C3: in every reachable state an invoice has at most one pending approval
\* task.
C3_OnePendingTaskPerInvoice ==
    \A i \in PipeInvoices : Cardinality(PendingTasks(i)) <= 1

\* C5: for one invoice at most one process_invoice execution is in flight
\* at a time.
C5_StatusWritesSerialized ==
    \A i \in Uploads :
        ~(InFlight(<<i, "background">>) /\ InFlight(<<i, "handler">>))

\* The invoice.uploaded message of an invoice is with the bus again: waiting
\* for redelivery with a raised retry count, or dead-lettered with its
\* retries used up.
BackWithBus(invoice_id) ==
    \/ \E k \in DOMAIN channel["invoice.uploaded"] :
          /\ channel["invoice.uploaded"][k].data.invoice_id = invoice_id
          /\ channel["invoice.uploaded"][k].retry_count > 0
    \/ \E d \in DOMAIN dlq :
          /\ dlq[d].message.event_type = "invoice.uploaded"
          /\ dlq[d].message.data.invoice_id = invoice_id
          /\ dlq[d].message.retry_count >= dlq[d].message.max_retries

ErrorPublished(msgs, invoice_id) ==
    \E k \in DOMAIN msgs : /\ msgs[k].event_type = "system.error"
                           /\ msgs[k].data.invoice_id = invoice_id
                           /\ msgs[k].data.severity = "error"

\* C9: when process_invoice, called for an invoice.uploaded message, fails,
\* the failure path leaves the stored status at PROCESSING, publishes
\* system.error with severity error, and hands the message back to the bus
\* for a retry or, with the retries used up, to the dead-letter list.
C9_FailureRetriedStatusKept ==
    [][\A i \in Uploads :
          LET r == <<i, "handler">>
          IN /\ (run[r].pc = "working" /\ run'[r].pc = "failing")
                  => status'[i] = status[i]
             /\ (run[r].pc = "failing" /\ run'[r].pc = "raised")
                  => ErrorPublished(messages', i) /\ BackWithBus(i)']_vars

\* The approval.completed message a step delivers to on_approval_completed:
\* taken from the Redis channel, or handled inside publish on the in-memory
\* queue.
DeliversCompleted(m) ==
    /\ m.event_type = "approval.completed"
    /\ \/ /\ queueKind = "redis"
          /\ channel["approval.completed"] # <<>>
          /\ m = Head(channel["approval.completed"])
          /\ channel'["approval.completed"] = Tail(channel["approval.completed"])
       \/ /\ queueKind = "memory"
          /\ \E k \in DOMAIN messages' : k > Len(messages) /\ messages'[k] = m

OutcomePublished(msgs, m) ==
    \E k \in DOMAIN msgs :
        /\ msgs[k].data.invoice_id = m.data.invoice_id
        /\ IF m.data.decision = "approved"
           THEN /\ msgs[k].event_type = "invoice.approved"
                /\ msgs[k].data.approver = m.data.approver_id
           ELSE msgs[k].event_type = "invoice.rejected"

\* C10: once approval.completed has been delivered for an invoice in
\* REVIEW_PENDING, the invoice is APPROVED (decision approved) or REJECTED
\* (decision rejected) and invoice.approved with the invoice id and the
\* actor, or invoice.rejected, has been published.
C10_ApprovalCompletes ==
    [][\A k \in DOMAIN messages' :
          LET m == messages'[k]
          IN (DeliversCompleted(m) /\ status[m.data.invoice_id] = "review_pending")
               => /\ status'[m.data.invoice_id] = m.data.decision
                  /\ OutcomePublished(messages', m)]_vars

\* The invoice.processed message a step delivers to on_invoice_processed:
\* taken from the Redis channel, handled again by a second consumer, or
\* handled inside publish on the in-memory queue.
DeliversProcessed(m) ==
    /\ m.event_type = "invoice.processed"
    /\ \/ /\ queueKind = "redis"
          /\ channel["invoice.processed"] # <<>>
          /\ m = Head(channel["invoice.processed"])
          /\ channel'["invoice.processed"] = Tail(channel["invoice.processed"])
       \/ /\ redelivered' # redelivered
          /\ m.data.total_amount = tasks'[Len(tasks')].amount
          /\ m.data.invoice_id = tasks'[Len(tasks')].invoice_id
       \/ /\ queueKind = "memory"
          /\ \E k \in DOMAIN messages' : k > Len(messages) /\ messages'[k] = m

\* The approval events a step publishes for an invoice.
NewApprovalEvents(invoice_id) ==
    {k \in DOMAIN messages' :
        /\ k > Len(messages)
        /\ messages'[k].event_type \in {"approval.requested",
                                        "approval.assigned"}
        /\ messages'[k].data.invoice_id = invoice_id}

\* C11: when a processed invoice routes to auto-approval (total_amount below
\* 500), handling its invoice.processed message leaves the invoice APPROVED,
\* creates no approval task and publishes neither approval.requested nor
\* approval.assigned for it.
C11_AutoApproveCreatesNoTask ==
    [][\A k \in DOMAIN messages' :
          LET m == messages'[k]
          IN (DeliversProcessed(m) /\ m.data.total_amount < 500)
               => /\ status'[m.data.invoice_id] = "approved"
                  /\ tasks' = tasks
                  /\ NewApprovalEvents(m.data.invoice_id) = {}]_vars

\* The event types of an invoice's lifetime.
LifetimeEvents == {"invoice.uploaded", "invoice.processed",
                   "approval.requested", "approval.assigned",
                   "approval.completed", "invoice.approved",
                   "invoice.rejected"}

\* C12: all messages published for one invoice (invoice.uploaded,
\* invoice.processed, approval.requested, approval.assigned,
\* approval.completed, invoice.approved / invoice.rejected) carry the same
\* correlation id.
C12_CorrelationIdPropagates ==
    \A j \in DOMAIN messages, k \in DOMAIN messages :
        (/\ messages[j].event_type \in LifetimeEvents
         /\ messages[k].event_type \in LifetimeEvents
         /\ messages[j].data.invoice_id = messages[k].data.invoice_id)
          => messages[j].correlation_id = messages[k].correlation_id

(***************************************************************************)
(* Claims about the SLA manager                                            *)
(***************************************************************************)

\* The order none < reminder < manager < director < executive.
LevelOrder == <<"none", "reminder", "manager", "director", "executive">>
Rank(level) == IndexIn(LevelOrder, level)

\* C13: over check_sla and get_escalation_action calls at non-decreasing
\* times a record's current_escalation never decreases, and an action that
\* get_escalation_action returns is never of a level below the record's
\* level before the call.
C13_EscalationNeverDecreases ==
    [][slaCall'.op \in {"check_sla", "get_escalation_action"}
         => \A i \in DOMAIN slaRecords \cap DOMAIN slaRecords' :
               /\ Rank(slaRecords'[i].current_escalation)
                     >= Rank(slaRecords[i].current_escalation)
               /\ slaCall'.action # NoAction
                     => Rank(slaCall'.action.level)
                           >= Rank(slaRecords[i].current_escalation)]_vars

\* get_escalation_action has just polled a breached record that had been
\* sent three reminders while in the warning zone.
C13_Witness ==
    /\ slaCall.op = "get_escalation_action"
    /\ \E i \in DOMAIN slaRecords :
          /\ slaRecords[i].reminder_count = 3
          /\ slaRecords[i].status = "breached"
          /\ slaNow > slaRecords[i].deadline

\* get_escalation_action has just polled the record, Elapsed hours after its
\* creation with a deadline of Total hours.
PolledAt(i, total, elapsed) ==
    /\ slaCall.op = "get_escalation_action"
    /\ i \in DOMAIN slaRecords
    /\ slaRecords[i].deadline - slaRecords[i].created_at = total
    /\ slaNow - slaRecords[i].created_at = elapsed

\* C14: a review record (48h deadline) polled through get_escalation_action
\* is WARNING with level at least manager at 36h, and BREACHED with level
\* executive at 48h.
C14_ReviewEscalationTimeline ==
    \A i \in SlaInvoices :
        /\ PolledAt(i, 48, 36)
             => /\ slaRecords[i].status = "warning"
                /\ Rank(slaRecords[i].current_escalation) >= Rank("manager")
        /\ PolledAt(i, 48, 48)
             => /\ slaRecords[i].status = "breached"
                /\ slaRecords[i].current_escalation = "executive"

\* The status check_sla is to leave, by the share of the duration elapsed.
StatusByElapsed(record, now) ==
    LET elapsed == now - record.created_at
        total == record.deadline - record.created_at
    IN IF elapsed >= total THEN "breached"
       ELSE IF 100 * elapsed >= 75 * total THEN "warning"
       ELSE "on_track"

\* C15: after check_sla a record is WARNING from exactly 75% of its duration
\* elapsed, BREACHED from 100%, ON_TRACK below 75%; breached_at is written
\* on the first transition to BREACHED only.
C15_WarningAtThreeQuarters ==
    /\ [](\A i \in DOMAIN slaRecords :
            slaCall.op = "check_sla"
              => slaRecords[i].status = StatusByElapsed(slaRecords[i], slaNow))
    /\ [][\A i \in DOMAIN slaRecords \cap DOMAIN slaRecords' :
            (slaCall'.op = "check_sla" /\ slaRecords[i].status = "breached")
              => slaRecords'[i].breached_at = slaRecords[i].breached_at]_vars

\* The record's elapsed hours lie between the first reminder hour and the
\* manager escalation hour.
InReminderWindow(record, now) ==
    /\ now - record.created_at >= slaConfig.first_reminder_hours
    /\ now - record.created_at < slaConfig.manager_escalation_hours

\* C27: a get_escalation_action call on a record whose elapsed hours are at
\* least first_reminder_hours and below manager_escalation_hours, with fewer
\* than 3 reminders emitted, returns a reminder and adds one to
\* reminder_count; reminder_count never exceeds 3, and a step changes the
\* reminder_count of a record only by one, in a call that returns a reminder.
C27_ReminderInWindow ==
    /\ [][\A i \in DOMAIN slaRecords :
            (/\ get_escalation_action(i)
             /\ InReminderWindow(slaRecords[i], slaNow)
             /\ slaRecords[i].reminder_count < 3)
               => /\ slaCall'.action.type = "reminder"
                  /\ slaRecords'[i].reminder_count
                        = slaRecords[i].reminder_count + 1]_vars
    /\ [](\A i \in DOMAIN slaRecords : slaRecords[i].reminder_count <= 3)
    /\ [][\A i \in DOMAIN slaRecords \cap DOMAIN slaRecords' :
            slaRecords'[i].reminder_count # slaRecords[i].reminder_count
               => /\ slaCall'.op = "get_escalation_action"
                  /\ slaCall'.action.type = "reminder"
                  /\ slaRecords'[i].reminder_count
                        = slaRecords[i].reminder_count + 1]_vars

\* The actions the rules in rs owe for data: those of every active matching
\* rule, in descending priority, down to and including the first matching
\* rule with a terminal action.
OwedActions(rs, data) ==
    LET S == sorted_by_priority(active_rules(rs))
        Owes(k) == /\ matches(S[k], data)
                   /\ \A j \in 1..(k - 1) :
                          ~(matches(S[j], data) /\ is_terminal(S[j]))
        owed[k \in 0..Len(S)] ==
            IF k = 0 THEN << >>
            ELSE owed[k - 1] \o (IF Owes(k) THEN emitted(S[k]) ELSE << >>)
    IN owed[Len(S)]

\* C16: a call of evaluate returns the actions of the active matching rules
\* in descending priority up to and including the first terminal rule, and
\* nothing else.
C16_EvaluateReturnsOwedActions ==
    rulesCall.op = "evaluate" =>
        /\ rulesCall.raised = "None"
        /\ rulesCall.actions = OwedActions(rules, rulesCall.data)

\* The registrations made under the tenant and hash of the last call.
RegisteredUnder ==
    SelectSeq(registered,
              LAMBDA d : d.tenant = dupCall.tenant /\ d.hash = dupCall.hash)

\* C17: check_hash_duplicate(h, t) returns a match exactly when a document
\* was registered under the same tenant and hash; the match is an exact_hash
\* match of confidence 1.0 naming the first such document.
C17_HashMatchIsFirstRegistered ==
    dupCall.op = "check_hash_duplicate" =>
        dupCall.matches =
            IF RegisteredUnder = << >> THEN << >>
            ELSE <<DuplicateMatch(RegisteredUnder[1].document_id,
                                  "exact_hash", 100)>>

\* Two documents under one tenant and hash, then a check of that hash.
C17_Witness ==
    /\ dupCall.op = "check_hash_duplicate"
    /\ Len(RegisteredUnder) = 2
    /\ dupCall.matches # << >>

\* C18: check_all never raises, whatever optional fields are missing in the
\* call and in the registrations before it.
C18_CheckAllNeverRaises ==
    dupCall.op = "check_all" => dupCall.raised = "None"

HasSplitting ==
    \E k \in DOMAIN riskResult.indicators :
        riskResult.indicators[k] = RiskIndicator("threshold_splitting", 6, 10)

\* C19: with the thresholds [1000, 5000, 10000, 25000] an assessment of
\* total_amount 4999 or 4900 carries the THRESHOLD_SPLITTING indicator with
\* score 0.6, and one of 4249 or 5000 does not.
C19_SplittingJustBelowThreshold ==
    (riskResult # NoAssessment
     /\ riskInput.approval_thresholds \in {<< >>, DefaultThresholds}) =>
        /\ riskInput.total_amount \in {4999, 4900} => HasSplitting
        /\ riskInput.total_amount \in {4249, 5000} => ~HasSplitting

\* The smallest bucket whose threshold is at least the overall_score given in
\* thousandths.
BucketOf(overall_score) ==
    LET k == CHOOSE k \in DOMAIN LEVEL_THRESHOLDS :
                 /\ overall_score <= 100 * LEVEL_THRESHOLDS[k].threshold
                 /\ \A j \in 1..(k - 1) :
                        overall_score > 100 * LEVEL_THRESHOLDS[j].threshold
    IN LEVEL_THRESHOLDS[k].level

\* C20: every assessment has overall_score within [0, 1] and the level of
\* the smallest bucket whose threshold is at least the returned (rounded)
\* overall_score.
C20_LevelIsBucketOfScore ==
    riskResult # NoAssessment =>
        /\ riskResult.overall_score \in 0..1000
        /\ riskResult.level = BucketOf(riskResult.overall_score)

(***************************************************************************)
(* Claims about the audit logger (checked under SpecAudit)                 *)
(***************************************************************************)

\* C21: the stored events are the logged events in logging order: the k-th
\* stored event carries counter k; a log step appends the event it returns
\* and touches no stored event; a query step, whatever its filters, leaves
\* the stored sequence as it is.
C21_LogIsAppendOnly ==
    /\ [](/\ Len(events) = event_counter
          /\ \A k \in DOMAIN events : events[k].id = k)
    /\ [][auditCall'.op = "log"
            => events' = Append(events, auditCall'.event)]_vars
    /\ [][auditCall'.op = "query" => events' = events]_vars

\* An event object that has the fields of the logged event s but for some
\* that were overwritten, the checksum untouched.
Altered(event, s) == event.checksum = s.checksum /\ event # s

\* C22: the event log returns passes verify_integrity, and an event object
\* that differs from a logged event in a field other than the checksum (id,
\* event type, timestamp, actor, tenant id, resource type, resource id,
\* action, details, metadata) fails it.
C22_ChecksumCoversEveryField ==
    /\ auditCall.op = "log" => verify_integrity(auditCall.event)
    /\ auditCall.op = "verify_integrity"
         => /\ (\E k \in DOMAIN events : auditCall.event = events[k])
                  => auditCall.verified
            /\ (\E k \in DOMAIN events : Altered(auditCall.event, events[k]))
                  => ~auditCall.verified

(***************************************************************************)
(* Claims about the PO matching engine (checked under SpecPo)              *)
(***************************************************************************)

\* The severities of all the variances of a result, header and line.
Severities(result) ==
    {result.header_variances[k].severity :
        k \in DOMAIN result.header_variances}
    \cup UNION {{result.line_matches[k].variances[j].severity :
                    j \in DOMAIN result.line_matches[k].variances} :
                 k \in DOMAIN result.line_matches}

\* C28: match_invoice returns NO_PO when there is no PO reference and
\* PO_NOT_FOUND when the reference resolves to no PO; otherwise MISMATCH
\* whenever a variance is critical, PARTIAL when none is critical and an
\* invoice line is unmatched or there is a variance, and MATCHED only
\* when there is no variance and every invoice line is matched.
C28_StatusFollowsVariances ==
    poResult # NoMatchResult =>
        LET reference == reference_of(poInput.invoice, poInput.po_reference)
            found == reference # "" /\ find_po(reference) # 0
        IN /\ reference = "" => poResult.status = "no_po"
           /\ (reference # "" /\ ~found) => poResult.status = "po_not_found"
           /\ poResult.status = "matched"
                => /\ Severities(poResult) = {}
                   /\ poResult.unmatched_invoice_lines = << >>
           /\ (found /\ "critical" \in Severities(poResult))
                => poResult.status = "mismatch"
           /\ (/\ found
               /\ "critical" \notin Severities(poResult)
               /\ \/ poResult.unmatched_invoice_lines # << >>
                  \/ Severities(poResult) # {})
                => poResult.status = "partial"

====
